---- MODULE Spec2Model ----
(***************************************************************************)
(* Verification model of ancalabrese/gotth.                                *)
(*                                                                         *)
(*   Spec      the session middlewares (middlewares.SessionCheck and       *)
(*             middlewares.InvalidateSession): one request served by one   *)
(*             middleware instance, with a recording onError callback and  *)
(*             a recording next handler.                                   *)
(*   SpecHead  the head view-model builder (head.NewHeadViewModel) and the *)
(*             generic builder (viewmodel.NewViewModel) applied to bounded *)
(*             option sequences.                                           *)
(*   SpecJSONLD  the JSON-LD node encoder (JSONLDNode.MarshalJSON) applied *)
(*             to bounded nodes, and the decode / re-encode round trip.    *)
(*   SpecServer  the web server (WebServer.New, ServeContent, Start with    *)
(*             its listener and signal goroutines) in its two packages,    *)
(*             gotth and server; SpecServerLive adds the scheduler's       *)
(*             fairness.                                                   *)
(***************************************************************************)
EXTENDS Integers, Sequences, FiniteSets, TLC

VARIABLES
    handler,              \* which middleware served the request ("none" before)
    isSessionIDRequired,  \* SessionCheck's required flag
    ss,                   \* the SessionStore the middleware was built with
    req,                  \* the incoming *http.Request
    now,                  \* time.Now() at the time of the request (hours)
    fx,                   \* everything the handler did: callbacks, store calls, response
    hvPhase,              \* "idle", then "built" (by NewHeadViewModel) or
                          \* "applied" (by NewViewModel)
    hvOpts,               \* the option sequence the builder was called with
    hvm,                  \* the HeadViewModel it returned (or had at the panic)
    hvPanic,              \* the runtime panic that ended the call, "" if none
    jlPhase,              \* "idle", "encoded" (json.Marshal on jlNode done),
                          \* "decoded" (json.Unmarshal of jlOut done),
                          \* "reencoded" (json.Marshal on jlBack done)
    jlNode,               \* the JSONLDNode that was encoded
    jlOut,                \* the JSON value MarshalJSON produced
    jlBack,               \* the JSONLDNode jlOut was decoded into, and the error
    jlAgain,              \* the JSON value MarshalJSON produced for jlBack
    ws,                   \* the WebServer: package, config, mux routes, Handler
    startPc,              \* where the goroutine running Start stands
    startRet,             \* the error Start returned
    listenPc,             \* where the listener goroutine of Start stands
    listenErr,            \* what ListenAndServe returned
    errChan,              \* Start's errChan: buffer (capacity 1) and closed flag
    sigPc,                \* where the goroutine of gracefulShutdownContext stands
    sigChan,              \* its sigChan: buffer (capacity 1)
    ctxDone,              \* the context passed to Start has been cancelled
    cancelCalled,         \* cancel() of the derived context has been called
    selectWoken,          \* the case that woke Start's blocked select, "" if none
    shutdownCalls,        \* the timeouts httpServer.Shutdown was called with
    served,               \* the request served: handler trace and response
    hist                  \* what had happened when the listener failed / the
                          \* shutdown signal occurred

vars == <<handler, isSessionIDRequired, ss, req, now, fx, hvPhase, hvOpts, hvm, hvPanic, jlPhase, jlNode, jlOut, jlBack, jlAgain, ws, startPc, startRet, listenPc, listenErr, errChan, sigPc, sigChan, ctxDone, cancelCalled, selectWoken, shutdownCalls, served, hist>>

sessionVars == <<handler, isSessionIDRequired, ss, req, now, fx>>
headVars == <<hvPhase, hvOpts, hvm, hvPanic>>
jsonldVars == <<jlPhase, jlNode, jlOut, jlBack, jlAgain>>
serverVars == <<ws, startPc, startRet, listenPc, listenErr, errChan, sigPc, sigChan, ctxDone, cancelCalled, selectWoken, shutdownCalls, served, hist>>

----------------------------------------------------------------------------
(* Bounds *)

MaxCookies == 2    \* cookies carried by one request
MaxOpts == 3       \* options passed to one NewHeadViewModel call
MaxDepth == 2      \* levels of @graph nesting below an encoded node
MaxMiddlewares == 2  \* global middlewares in one WebServerConfig

----------------------------------------------------------------------------
(* Session middleware: values *)

SESSION_COOKIE_NAME == "session_id"
UserKey == "gotth_user_key"

\* A key some other middleware stores under (example/middleware nameKey).
OtherKey == "name_key"
CtxKeys == {UserKey, OtherKey}

Nil == "nil"
Users == {"user123", "user789"}
SessionIDs == {"tok-a", "tok-b"}
CookieNames == {SESSION_COOKIE_NAME, "theme"}
Times == {10, 11}

\* Errors are chains of messages, outermost first; fmt.Errorf("...%w", e) puts
\* its message in front of e's chain, and the nil error is the empty chain.
NoErr == <<>>
ErrNoCookie == <<"http: named cookie not present">>
ErrInvalidCookie == <<"http: invalid Cookie.Value">>
ErrUserNil == <<"user object is nil for an authorized request">>
StoreErrs == {<<"session exchange failed from mock">>, <<"session store failed to invalidate">>}

Errorf(msg, err) == <<msg>> \o err

\* errors.Is: target is err itself or is reached by unwrapping err.
ErrorsIs(err, target) ==
    /\ target # NoErr
    /\ \E i \in 1..Len(err) : SubSeq(err, i, Len(err)) = target

\* A cookie as the request parser hands it over. validErr is the verdict of
\* net/http's Cookie.Valid() on it (nil or an error).
Cookies == [Name : CookieNames, Value : SessionIDs, validErr : {NoErr, ErrInvalidCookie}]

ZeroCookie == [Name |-> "", Value |-> "", validErr |-> NoErr]

CookieSeqs == UNION {[1..n -> Cookies] : n \in 0..MaxCookies}

\* A request context: the user under UserKey (absent = nil) and what another
\* middleware may have stored under its own key.
Names == {Nil, "gotther"}
Contexts == {[k \in CtxKeys |-> IF k = UserKey THEN u ELSE n] :
                u \in Users \cup {Nil}, n \in Names}

Requests == [cookies : CookieSeqs, ctx : Contexts]

\* SessionStore implementations are the caller's; these are the ones the tests
\* use: a fixed user or a fixed error for the exchange, a fixed result for the
\* invalidation.
Stores == [UserForSessionID : Users \cup {Nil},
           ErrorForSessionID : {NoErr} \cup StoreErrs,
           InvalidateError : {NoErr} \cup StoreErrs]

NoEffects == [onError |-> <<>>, next |-> <<>>, exchange |-> <<>>,
              invalidate |-> <<>>, setCookie |-> <<>>, trace |-> <<>>]

----------------------------------------------------------------------------
(* Session middleware: the collaborators *)

\* (*http.Request).Cookie: the first cookie of that name, or ErrNoCookie.
Cookie(r, name) ==
    LET hits == {i \in DOMAIN r.cookies : r.cookies[i].Name = name}
    IN  IF hits = {}
        THEN [cookie |-> ZeroCookie, err |-> ErrNoCookie]
        ELSE [cookie |-> r.cookies[CHOOSE i \in hits : \A j \in hits : i <= j],
              err |-> NoErr]

\* (*http.Cookie).Valid
Valid(c) == c.validErr

\* context.WithValue and (*http.Request).WithContext
WithValue(ctx, key, val) == [ctx EXCEPT ![key] = val]
WithContext(r, ctx) == [r EXCEPT !.ctx = ctx]

GetUser(ctx) == ctx[UserKey]

ExchangeSessionIDForUser(store, sessionID) ==
    IF store.ErrorForSessionID # NoErr
    THEN [user |-> Nil, err |-> store.ErrorForSessionID]
    ELSE [user |-> store.UserForSessionID, err |-> NoErr]

StoreInvalidateSession(store, user, sessionID) == store.InvalidateError

\* The callbacks and the store record each call they receive.
onError(f, err) ==
    [f EXCEPT !.onError = Append(@, err), !.trace = Append(@, "onError")]

nextServeHTTP(f, r) ==
    [f EXCEPT !.next = Append(@, r), !.trace = Append(@, "next")]

exchangeCalled(f, sessionID) ==
    [f EXCEPT !.exchange = Append(@, sessionID),
              !.trace = Append(@, "ExchangeSessionIDForUser")]

invalidateCalled(f, user, sessionID) ==
    [f EXCEPT !.invalidate = Append(@, [user |-> user, sessionID |-> sessionID]),
              !.trace = Append(@, "InvalidateSession")]

\* http.SetCookie on the response writer
SetCookie(f, cookie) ==
    [f EXCEPT !.setCookie = Append(@, cookie), !.trace = Append(@, "SetCookie")]

----------------------------------------------------------------------------
(* Session middleware: the two handlers *)

\* Variant: a missing cookie is let through whatever the required flag.
SessionCheck_MissingIgnoresRequired(store, required, r) ==
    LET lookup == Cookie(r, SESSION_COOKIE_NAME)
        sessionCookie == lookup.cookie
    IN  IF lookup.err # NoErr
        THEN nextServeHTTP(NoEffects, r)
        ELSE IF Valid(sessionCookie) # NoErr
        THEN IF ~required
             THEN nextServeHTTP(NoEffects, r)
             ELSE onError(NoEffects, Valid(sessionCookie))
        ELSE LET res == ExchangeSessionIDForUser(store, sessionCookie.Value)
                 f1 == exchangeCalled(NoEffects, sessionCookie.Value)
             IN  IF res.err # NoErr
                 THEN IF ~required
                      THEN nextServeHTTP(f1, r)
                      ELSE onError(f1, res.err)
                 ELSE nextServeHTTP(f1,
                          WithContext(r, WithValue(r.ctx, UserKey, res.user)))

\* Variant: a failed exchange is reported whatever the required flag.
SessionCheck_ExchangeFailureAlwaysErrors(store, required, r) ==
    LET lookup == Cookie(r, SESSION_COOKIE_NAME)
        sessionCookie == lookup.cookie
    IN  IF lookup.err # NoErr
        THEN IF ~required
             THEN nextServeHTTP(NoEffects, r)
             ELSE onError(NoEffects, lookup.err)
        ELSE IF Valid(sessionCookie) # NoErr
        THEN IF ~required
             THEN nextServeHTTP(NoEffects, r)
             ELSE onError(NoEffects, Valid(sessionCookie))
        ELSE LET res == ExchangeSessionIDForUser(store, sessionCookie.Value)
                 f1 == exchangeCalled(NoEffects, sessionCookie.Value)
             IN  IF res.err # NoErr
                 THEN onError(f1, res.err)
                 ELSE nextServeHTTP(f1,
                          WithContext(r, WithValue(r.ctx, UserKey, res.user)))

\* Variant: the request is passed on without the new context.
SessionCheck_DropsUser(store, required, r) ==
    LET lookup == Cookie(r, SESSION_COOKIE_NAME)
        sessionCookie == lookup.cookie
    IN  IF lookup.err # NoErr
        THEN IF ~required
             THEN nextServeHTTP(NoEffects, r)
             ELSE onError(NoEffects, lookup.err)
        ELSE IF Valid(sessionCookie) # NoErr
        THEN IF ~required
             THEN nextServeHTTP(NoEffects, r)
             ELSE onError(NoEffects, Valid(sessionCookie))
        ELSE LET res == ExchangeSessionIDForUser(store, sessionCookie.Value)
                 f1 == exchangeCalled(NoEffects, sessionCookie.Value)
             IN  IF res.err # NoErr
                 THEN IF ~required
                      THEN nextServeHTTP(f1, r)
                      ELSE onError(f1, res.err)
                 ELSE nextServeHTTP(f1, r)

\* Variant: an invalid cookie is reported with the lookup error.
SessionCheck_StaleErr(store, required, r) ==
    LET lookup == Cookie(r, SESSION_COOKIE_NAME)
        sessionCookie == lookup.cookie
    IN  IF lookup.err # NoErr
        THEN IF ~required
             THEN nextServeHTTP(NoEffects, r)
             ELSE onError(NoEffects, lookup.err)
        ELSE IF Valid(sessionCookie) # NoErr
        THEN IF ~required
             THEN nextServeHTTP(NoEffects, r)
             ELSE onError(NoEffects, ErrNoCookie)
        ELSE LET res == ExchangeSessionIDForUser(store, sessionCookie.Value)
                 f1 == exchangeCalled(NoEffects, sessionCookie.Value)
             IN  IF res.err # NoErr
                 THEN IF ~required
                      THEN nextServeHTTP(f1, r)
                      ELSE onError(f1, res.err)
                 ELSE nextServeHTTP(f1,
                          WithContext(r, WithValue(r.ctx, UserKey, res.user)))

\* Variant: the exchange is made as soon as the cookie is found, before its
\* validity check.
SessionCheck_ExchangesBeforeValid(store, required, r) ==
    LET lookup == Cookie(r, SESSION_COOKIE_NAME)
        sessionCookie == lookup.cookie
    IN  IF lookup.err # NoErr
        THEN IF ~required
             THEN nextServeHTTP(NoEffects, r)
             ELSE onError(NoEffects, lookup.err)
        ELSE LET res == ExchangeSessionIDForUser(store, sessionCookie.Value)
                 f1 == exchangeCalled(NoEffects, sessionCookie.Value)
             IN  IF Valid(sessionCookie) # NoErr
                 THEN IF ~required
                      THEN nextServeHTTP(f1, r)
                      ELSE onError(f1, Valid(sessionCookie))
                 ELSE IF res.err # NoErr
                 THEN IF ~required
                      THEN nextServeHTTP(f1, r)
                      ELSE onError(f1, res.err)
                 ELSE nextServeHTTP(f1,
                          WithContext(r, WithValue(r.ctx, UserKey, res.user)))

SessionCheck(store, required, r) ==
    LET lookup == Cookie(r, SESSION_COOKIE_NAME)
        sessionCookie == lookup.cookie
    IN  IF lookup.err # NoErr
        THEN IF ~required
             THEN nextServeHTTP(NoEffects, r)
             ELSE onError(NoEffects, lookup.err)
        ELSE IF Valid(sessionCookie) # NoErr
        THEN IF ~required
             THEN nextServeHTTP(NoEffects, r)
             ELSE onError(NoEffects, Valid(sessionCookie))
        ELSE LET res == ExchangeSessionIDForUser(store, sessionCookie.Value)
                 f1 == exchangeCalled(NoEffects, sessionCookie.Value)
             IN  IF res.err # NoErr
                 THEN IF ~required
                      THEN nextServeHTTP(f1, r)
                      ELSE onError(f1, res.err)
                 ELSE nextServeHTTP(f1,
                          WithContext(r, WithValue(r.ctx, UserKey, res.user)))

\* Variant: the nil-user check is missing.
InvalidateSession_NoUserCheck(store, r, t) ==
    LET lookup == Cookie(r, SESSION_COOKIE_NAME)
        sessionCookie == lookup.cookie
        user == GetUser(r.ctx)
    IN  IF lookup.err # NoErr
        THEN onError(NoEffects, lookup.err)
        ELSE LET err == StoreInvalidateSession(store, user, sessionCookie.Value)
                 f1 == invalidateCalled(NoEffects, user, sessionCookie.Value)
             IN  IF err # NoErr
                 THEN onError(f1, Errorf("failed to invalidate session. err ", err))
                 ELSE nextServeHTTP(
                          SetCookie(f1, [Name |-> SESSION_COOKIE_NAME,
                                         Value |-> sessionCookie.Value,
                                         Path |-> "/",
                                         Expires |-> t - 2,
                                         HttpOnly |-> TRUE,
                                         SameSite |-> "Lax"]),
                          r)

\* Variant: the expiry is two hours ahead instead of two hours back.
InvalidateSession_ExpiresAhead(store, r, t) ==
    LET lookup == Cookie(r, SESSION_COOKIE_NAME)
        sessionCookie == lookup.cookie
        user == GetUser(r.ctx)
    IN  IF lookup.err # NoErr
        THEN onError(NoEffects, lookup.err)
        ELSE IF user = Nil
        THEN onError(NoEffects, ErrUserNil)
        ELSE LET err == StoreInvalidateSession(store, user, sessionCookie.Value)
                 f1 == invalidateCalled(NoEffects, user, sessionCookie.Value)
             IN  IF err # NoErr
                 THEN onError(f1, Errorf("failed to invalidate session. err ", err))
                 ELSE nextServeHTTP(
                          SetCookie(f1, [Name |-> SESSION_COOKIE_NAME,
                                         Value |-> sessionCookie.Value,
                                         Path |-> "/",
                                         Expires |-> t + 2,
                                         HttpOnly |-> TRUE,
                                         SameSite |-> "Lax"]),
                          r)

\* Variant: the store error is formatted into the message, not wrapped.
InvalidateSession_NoWrap(store, r, t) ==
    LET lookup == Cookie(r, SESSION_COOKIE_NAME)
        sessionCookie == lookup.cookie
        user == GetUser(r.ctx)
    IN  IF lookup.err # NoErr
        THEN onError(NoEffects, lookup.err)
        ELSE IF user = Nil
        THEN onError(NoEffects, ErrUserNil)
        ELSE LET err == StoreInvalidateSession(store, user, sessionCookie.Value)
                 f1 == invalidateCalled(NoEffects, user, sessionCookie.Value)
             IN  IF err # NoErr
                 THEN onError(f1, Errorf("failed to invalidate session. err ", NoErr))
                 ELSE nextServeHTTP(
                          SetCookie(f1, [Name |-> SESSION_COOKIE_NAME,
                                         Value |-> sessionCookie.Value,
                                         Path |-> "/",
                                         Expires |-> t - 2,
                                         HttpOnly |-> TRUE,
                                         SameSite |-> "Lax"]),
                          r)

\* Variant: the user is checked before the cookie is looked up.
InvalidateSession_UserFirst(store, r, t) ==
    LET lookup == Cookie(r, SESSION_COOKIE_NAME)
        sessionCookie == lookup.cookie
        user == GetUser(r.ctx)
    IN  IF user = Nil
        THEN onError(NoEffects, ErrUserNil)
        ELSE IF lookup.err # NoErr
        THEN onError(NoEffects, lookup.err)
        ELSE LET err == StoreInvalidateSession(store, user, sessionCookie.Value)
                 f1 == invalidateCalled(NoEffects, user, sessionCookie.Value)
             IN  IF err # NoErr
                 THEN onError(f1, Errorf("failed to invalidate session. err ", err))
                 ELSE nextServeHTTP(
                          SetCookie(f1, [Name |-> SESSION_COOKIE_NAME,
                                         Value |-> sessionCookie.Value,
                                         Path |-> "/",
                                         Expires |-> t - 2,
                                         HttpOnly |-> TRUE,
                                         SameSite |-> "Lax"]),
                          r)

\* Variant: the cookie is validated as in SessionCheck.
InvalidateSession_ChecksValid(store, r, t) ==
    LET lookup == Cookie(r, SESSION_COOKIE_NAME)
        sessionCookie == lookup.cookie
        user == GetUser(r.ctx)
    IN  IF lookup.err # NoErr
        THEN onError(NoEffects, lookup.err)
        ELSE IF Valid(sessionCookie) # NoErr
        THEN onError(NoEffects, Valid(sessionCookie))
        ELSE IF user = Nil
        THEN onError(NoEffects, ErrUserNil)
        ELSE LET err == StoreInvalidateSession(store, user, sessionCookie.Value)
                 f1 == invalidateCalled(NoEffects, user, sessionCookie.Value)
             IN  IF err # NoErr
                 THEN onError(f1, Errorf("failed to invalidate session. err ", err))
                 ELSE nextServeHTTP(
                          SetCookie(f1, [Name |-> SESSION_COOKIE_NAME,
                                         Value |-> sessionCookie.Value,
                                         Path |-> "/",
                                         Expires |-> t - 2,
                                         HttpOnly |-> TRUE,
                                         SameSite |-> "Lax"]),
                          r)

InvalidateSession(store, r, t) ==
    LET lookup == Cookie(r, SESSION_COOKIE_NAME)
        sessionCookie == lookup.cookie
        user == GetUser(r.ctx)
    IN  IF lookup.err # NoErr
        THEN onError(NoEffects, lookup.err)
        ELSE IF user = Nil
        THEN onError(NoEffects, ErrUserNil)
        ELSE LET err == StoreInvalidateSession(store, user, sessionCookie.Value)
                 f1 == invalidateCalled(NoEffects, user, sessionCookie.Value)
             IN  IF err # NoErr
                 THEN onError(f1, Errorf("failed to invalidate session. err ", err))
                 ELSE nextServeHTTP(
                          SetCookie(f1, [Name |-> SESSION_COOKIE_NAME,
                                         Value |-> sessionCookie.Value,
                                         Path |-> "/",
                                         Expires |-> t - 2,
                                         HttpOnly |-> TRUE,
                                         SameSite |-> "Lax"]),
                          r)

----------------------------------------------------------------------------
(* Head view model: the types *)

\* The zero value of PageMetadata and of HeadViewModel (nil slices and the nil
\* map are the empty sequence and the empty mapping).
\* A Go map value: the nil map, or an allocated map with its entries.
\* Reading either is fine; assigning to an entry of the nil map panics.
NilMap == [isNil |-> TRUE, kv |-> <<>>]
MakeMap == [isNil |-> FALSE, kv |-> <<>>]

MapAssign(m, key, value) ==
    [m EXCEPT !.kv = [k \in DOMAIN @ \cup {key} |-> IF k = key THEN value ELSE @[k]]]

NoPanic == ""
PanicNilMap == "assignment to entry in nil map"

ZeroPageMetadata ==
    [Title |-> "", Description |-> "", URL |-> "",
     Author |-> "", Keywords |-> <<>>, SchemaImageURL |-> "",
     ViewPort |-> "",
     OgURL |-> "", OgTitle |-> "", OgDescription |-> "", OgImage |-> "",
     OgImageWidth |-> "", OgImageHeight |-> "", OgImageAlt |-> "",
     TwitterTitle |-> "", TwitterDescription |-> "", TwitterImage |-> "",
     TwitterImageAlt |-> ""]

ZeroHeadViewModel ==
    [Name |-> "",
     Metadata |-> ZeroPageMetadata,
     FaviconPath |-> "", FaviconType |-> "", AppleTouchIconPath |-> "",
     MsTileColor |-> "", MsBrowserConfigPath |-> "", MsStartURL |-> "",
     OgType |-> "", OgLocale |-> "",
     TwitterCardType |-> "", TwitterSiteHandle |-> "", TwitterCreatorHandle |-> "",
     ThemeColor |-> "", AppleStatusBarColor |-> "", ColorScheme |-> "",
     IncludeHTMX |-> FALSE, HTMXPath |-> "",
     IncludeHTMXPreload |-> FALSE, HTMXPreloadPath |-> "",
     IncludeAlpineJS |-> FALSE, AlpineJSPath |-> "",
     Fonts |-> <<>>, Stylesheets |-> <<>>, HeaderScripts |-> <<>>,
     IsAnalyticsEnabled |-> FALSE, MeasuramentID |-> "",
     PreparedJSONLD |-> "",
     CustomMetaTags |-> NilMap]

----------------------------------------------------------------------------
(* Head view model: the options, each as the function it returns *)

WithName(vm, name) == [vm EXCEPT !.Name = name]

\* Variant: the page title is copied to the OpenGraph title as it is set.
WithPageCoreMetadata_EagerOg(vm, title, description, canonicalURL) ==
    [vm EXCEPT !.Metadata.Title = title,
               !.Metadata.Description = description,
               !.Metadata.URL = canonicalURL,
               !.Metadata.OgTitle = title]

WithPageCoreMetadata(vm, title, description, canonicalURL) ==
    [vm EXCEPT !.Metadata.Title = title,
               !.Metadata.Description = description,
               !.Metadata.URL = canonicalURL]

WithAuthor(vm, author) == [vm EXCEPT !.Metadata.Author = author]

\* Variant: the keywords are added to those already there.
WithKeywords_Merge(vm, keywords) == [vm EXCEPT !.Metadata.Keywords = @ \o keywords]

WithKeywords(vm, keywords) == [vm EXCEPT !.Metadata.Keywords = keywords]

\* Variant: the viewport is assigned whatever the argument.
WithViewport_Unconditional(vm, viewport) == [vm EXCEPT !.Metadata.ViewPort = viewport]

WithViewport(vm, viewport) ==
    IF viewport # "" THEN [vm EXCEPT !.Metadata.ViewPort = viewport] ELSE vm

WithSchemaImageURL(vm, url) == [vm EXCEPT !.Metadata.SchemaImageURL = url]

WithFavicon(vm, path, favType) ==
    [vm EXCEPT !.FaviconPath = path, !.FaviconType = favType]

WithAppleTouchIcon(vm, path) == [vm EXCEPT !.AppleTouchIconPath = path]

WithMicrosoftOptions(vm, tileColor, browserConfigPath, startURL) ==
    [vm EXCEPT
        !.MsTileColor = IF tileColor # "" THEN tileColor ELSE @,
        !.MsBrowserConfigPath = IF browserConfigPath # "" THEN browserConfigPath ELSE @,
        !.MsStartURL = IF startURL # "" THEN startURL ELSE @]

WithOpenGraph(vm, ogType, ogLocale, ogURL, ogTitle, ogDescription, ogImage, imgWidth, imgHeight, imgAlt) ==
    [vm EXCEPT
        !.OgType = IF ogType # "" THEN ogType ELSE @,
        !.OgLocale = IF ogLocale # "" THEN ogLocale ELSE @,
        !.Metadata.OgURL = IF ogURL # "" THEN ogURL ELSE @,
        !.Metadata.OgTitle = IF ogTitle # "" THEN ogTitle ELSE @,
        !.Metadata.OgDescription = IF ogDescription # "" THEN ogDescription ELSE @,
        !.Metadata.OgImage = IF ogImage # "" THEN ogImage ELSE @,
        !.Metadata.OgImageWidth = IF imgWidth # "" THEN imgWidth ELSE @,
        !.Metadata.OgImageHeight = IF imgHeight # "" THEN imgHeight ELSE @,
        !.Metadata.OgImageAlt = IF imgAlt # "" THEN imgAlt ELSE @]

WithTwitterCard(vm, cardType, siteHandle, creatorHandle, title, description, image, imageAlt) ==
    [vm EXCEPT
        !.TwitterCardType = IF cardType # "" THEN cardType ELSE @,
        !.TwitterSiteHandle = IF siteHandle # "" THEN siteHandle ELSE @,
        !.TwitterCreatorHandle = IF creatorHandle # "" THEN creatorHandle ELSE @,
        !.Metadata.TwitterTitle = IF title # "" THEN title ELSE @,
        !.Metadata.TwitterDescription = IF description # "" THEN description ELSE @,
        !.Metadata.TwitterImage = IF image # "" THEN image ELSE @,
        !.Metadata.TwitterImageAlt = IF imageAlt # "" THEN imageAlt ELSE @]

WithThemeing(vm, themeColor, appleStatusColor, colorScheme) ==
    [vm EXCEPT
        !.ThemeColor = IF themeColor # "" THEN themeColor ELSE @,
        !.AppleStatusBarColor = IF appleStatusColor # "" THEN appleStatusColor ELSE @,
        !.ColorScheme = IF colorScheme # "" THEN colorScheme ELSE @]

WithAnalytics(vm, enabled, measurementID) ==
    [vm EXCEPT !.IsAnalyticsEnabled = enabled, !.MeasuramentID = measurementID]

WithPreparedJSONLD(vm, jsonLD) == [vm EXCEPT !.PreparedJSONLD = jsonLD]

\* The returned function has an empty body.
WithJSONLD(vm, jsonLD) == vm

WithFont(vm, href, crossOrigin) ==
    [vm EXCEPT !.Fonts = Append(@, [Href |-> href, CrossOrigin |-> crossOrigin])]

WithStylesheet(vm, href, media, integrity, crossOrigin) ==
    [vm EXCEPT !.Stylesheets =
        Append(@, [Href |-> href, Media |-> media, Integrity |-> integrity,
                   CrossOrigin |-> crossOrigin])]

WithHeaderScript(vm, src, isAsync, isDefer, scriptType, integrity, crossOrigin) ==
    [vm EXCEPT !.HeaderScripts =
        Append(@, [Src |-> src, IsAsync |-> isAsync, IsDefer |-> isDefer,
                   Type |-> scriptType, Integrity |-> integrity,
                   CrossOrigin |-> crossOrigin])]

WithCommonLibInclusion(vm, includeHTMX, includeHTMXPreload, includeAlpine) ==
    [vm EXCEPT !.IncludeHTMX = includeHTMX,
               !.IncludeHTMXPreload = includeHTMXPreload,
               !.IncludeAlpineJS = includeAlpine]

WithCommonLibPaths(vm, htmxPath, htmxPreloadPath, alpinePath) ==
    [vm EXCEPT
        !.HTMXPath = IF htmxPath # "" THEN htmxPath ELSE @,
        !.HTMXPreloadPath = IF htmxPreloadPath # "" THEN htmxPreloadPath ELSE @,
        !.AlpineJSPath = IF alpinePath # "" THEN alpinePath ELSE @]

WithCustomMetaTag(vm, key, value) ==
    [vm EXCEPT !.CustomMetaTags = MapAssign(@, key, value)]

\* The runtime panic opt(&vm) ends in, if any: WithCustomMetaTag assigns to
\* vm.CustomMetaTags[key]; no other option can panic.
OptionPanic(vm, opt) ==
    IF opt.op = "WithCustomMetaTag" /\ vm.CustomMetaTags.isNil
    THEN PanicNilMap
    ELSE NoPanic

\* An Option value is the option's name with the arguments it closed over;
\* opt(&vm) runs the function of that name on them.
ApplyOption(vm, opt) ==
    CASE opt.op = "WithName" -> WithName(vm, opt.name)
      [] opt.op = "WithPageCoreMetadata" ->
            WithPageCoreMetadata(vm, opt.title, opt.description, opt.canonicalURL)
      [] opt.op = "WithAuthor" -> WithAuthor(vm, opt.author)
      [] opt.op = "WithKeywords" -> WithKeywords(vm, opt.keywords)
      [] opt.op = "WithViewport" -> WithViewport(vm, opt.viewport)
      [] opt.op = "WithSchemaImageURL" -> WithSchemaImageURL(vm, opt.url)
      [] opt.op = "WithFavicon" -> WithFavicon(vm, opt.path, opt.favType)
      [] opt.op = "WithAppleTouchIcon" -> WithAppleTouchIcon(vm, opt.path)
      [] opt.op = "WithMicrosoftOptions" ->
            WithMicrosoftOptions(vm, opt.tileColor, opt.browserConfigPath, opt.startURL)
      [] opt.op = "WithOpenGraph" ->
            WithOpenGraph(vm, opt.ogType, opt.ogLocale, opt.ogURL, opt.ogTitle,
                          opt.ogDescription, opt.ogImage, opt.imgWidth,
                          opt.imgHeight, opt.imgAlt)
      [] opt.op = "WithTwitterCard" ->
            WithTwitterCard(vm, opt.cardType, opt.siteHandle, opt.creatorHandle,
                            opt.title, opt.description, opt.image, opt.imageAlt)
      [] opt.op = "WithThemeing" ->
            WithThemeing(vm, opt.themeColor, opt.appleStatusColor, opt.colorScheme)
      [] opt.op = "WithAnalytics" -> WithAnalytics(vm, opt.enabled, opt.measurementID)
      [] opt.op = "WithPreparedJSONLD" -> WithPreparedJSONLD(vm, opt.jsonLD)
      [] opt.op = "WithJSONLD" -> WithJSONLD(vm, opt.jsonLD)
      [] opt.op = "WithFont" -> WithFont(vm, opt.href, opt.crossOrigin)
      [] opt.op = "WithStylesheet" ->
            WithStylesheet(vm, opt.href, opt.media, opt.integrity, opt.crossOrigin)
      [] opt.op = "WithHeaderScript" ->
            WithHeaderScript(vm, opt.src, opt.isAsync, opt.isDefer, opt.scriptType,
                             opt.integrity, opt.crossOrigin)
      [] opt.op = "WithCommonLibInclusion" ->
            WithCommonLibInclusion(vm, opt.includeHTMX, opt.includeHTMXPreload,
                                   opt.includeAlpine)
      [] opt.op = "WithCommonLibPaths" ->
            WithCommonLibPaths(vm, opt.htmxPath, opt.htmxPreloadPath, opt.alpinePath)
      [] opt.op = "WithCustomMetaTag" -> WithCustomMetaTag(vm, opt.key, opt.value)

----------------------------------------------------------------------------
(* Head view model: NewHeadViewModel *)

DefaultHeadViewModel ==
    [ZeroHeadViewModel EXCEPT
        !.Metadata.ViewPort = "width=device-width, initial-scale=1.0",
        !.MsStartURL = "/",
        !.OgType = "website",
        !.OgLocale = "en_US",
        !.TwitterCardType = "summary_large_image",
        !.HTMXPath = "/static/js/htmx.min.js",
        !.HTMXPreloadPath = "https://unpkg.com/htmx-ext-preload@2.0.1/preload.js",
        !.AlpineJSPath = "https://cdn.jsdelivr.net/npm/alpinejs@3.x.x/dist/cdn.min.js",
        !.CustomMetaTags = MakeMap]

\* for _, opt := range opts { opt(&vm) }
RECURSIVE ApplyOptions(_, _)
ApplyOptions(vm, opts) ==
    IF opts = <<>> THEN vm
    ELSE ApplyOptions(ApplyOption(vm, Head(opts)), Tail(opts))

\* Variant: the alt text synthesized from the Twitter title is preferred to
\* the OpenGraph image alt.
ResolveFallbacks_TitleFirst(vm) ==
    LET m0 == vm.Metadata
        m1 == IF m0.OgURL = "" THEN [m0 EXCEPT !.OgURL = m0.URL] ELSE m0
        m2 == IF m1.OgTitle = "" THEN [m1 EXCEPT !.OgTitle = m1.Title] ELSE m1
        m3 == IF m2.OgDescription = ""
              THEN [m2 EXCEPT !.OgDescription = m2.Description] ELSE m2
        m4 == IF m3.TwitterImage = ""
              THEN [m3 EXCEPT !.TwitterImage = m3.OgImage] ELSE m3
        m5 == IF m4.TwitterImageAlt = "" /\ m4.TwitterTitle # ""
              THEN [m4 EXCEPT !.TwitterImageAlt = "Image for " \o m4.TwitterTitle]
              ELSE IF m4.TwitterImageAlt = "" /\ m4.OgImageAlt # ""
              THEN [m4 EXCEPT !.TwitterImageAlt = m4.OgImageAlt]
              ELSE m4
    IN  [vm EXCEPT !.Metadata = m5]

\* Variant: the alt text is synthesized even from an empty Twitter title.
ResolveFallbacks_AlwaysSynthesizes(vm) ==
    LET m0 == vm.Metadata
        m1 == IF m0.OgURL = "" THEN [m0 EXCEPT !.OgURL = m0.URL] ELSE m0
        m2 == IF m1.OgTitle = "" THEN [m1 EXCEPT !.OgTitle = m1.Title] ELSE m1
        m3 == IF m2.OgDescription = ""
              THEN [m2 EXCEPT !.OgDescription = m2.Description] ELSE m2
        m4 == IF m3.TwitterImage = ""
              THEN [m3 EXCEPT !.TwitterImage = m3.OgImage] ELSE m3
        m5 == IF m4.TwitterImageAlt = "" /\ m4.OgImageAlt # ""
              THEN [m4 EXCEPT !.TwitterImageAlt = m4.OgImageAlt]
              ELSE IF m4.TwitterImageAlt = ""
              THEN [m4 EXCEPT !.TwitterImageAlt = "Image for " \o m4.TwitterTitle]
              ELSE m4
    IN  [vm EXCEPT !.Metadata = m5]

\* The post-processing block, one statement after the other.
ResolveFallbacks(vm) ==
    LET m0 == vm.Metadata
        m1 == IF m0.OgURL = "" THEN [m0 EXCEPT !.OgURL = m0.URL] ELSE m0
        m2 == IF m1.OgTitle = "" THEN [m1 EXCEPT !.OgTitle = m1.Title] ELSE m1
        m3 == IF m2.OgDescription = ""
              THEN [m2 EXCEPT !.OgDescription = m2.Description] ELSE m2
        m4 == IF m3.TwitterImage = ""
              THEN [m3 EXCEPT !.TwitterImage = m3.OgImage] ELSE m3
        m5 == IF m4.TwitterImageAlt = "" /\ m4.OgImageAlt # ""
              THEN [m4 EXCEPT !.TwitterImageAlt = m4.OgImageAlt]
              ELSE IF m4.TwitterImageAlt = "" /\ m4.TwitterTitle # ""
              THEN [m4 EXCEPT !.TwitterImageAlt = "Image for " \o m4.TwitterTitle]
              ELSE m4
    IN  [vm EXCEPT !.Metadata = m5]

\* Variant: the fallbacks are resolved on the defaults, before the options run.
NewHeadViewModel_ResolveFirst(opts) ==
    ApplyOptions(ResolveFallbacks(DefaultHeadViewModel), opts)

NewHeadViewModel(opts) ==
    ResolveFallbacks(ApplyOptions(DefaultHeadViewModel, opts))

\* The panic, if any, that a run of the options over vm ends in.
RECURSIVE OptionsPanic(_, _)
OptionsPanic(vm, opts) ==
    IF opts = <<>> THEN NoPanic
    ELSE IF OptionPanic(vm, Head(opts)) # NoPanic THEN OptionPanic(vm, Head(opts))
    ELSE OptionsPanic(ApplyOption(vm, Head(opts)), Tail(opts))

\* The instance as it is when the run of the options ends (at the first panic
\* or after the last option).
RECURSIVE RunOptions(_, _)
RunOptions(vm, opts) ==
    IF opts = <<>> \/ OptionPanic(vm, Head(opts)) # NoPanic THEN vm
    ELSE RunOptions(ApplyOption(vm, Head(opts)), Tail(opts))

----------------------------------------------------------------------------
(* Generic view-model builder, instantiated at T = HeadViewModel *)

\* vm := new(T); for _, d := range data { d(vm) }; return vm
NewViewModel(data) ==
    [vm |-> RunOptions(ZeroHeadViewModel, data),
     panic |-> OptionsPanic(ZeroHeadViewModel, data)]

----------------------------------------------------------------------------
(* JSON-LD: values *)

\* A Go value of type any, by dynamic type: the nil interface, a string, a
\* []string, a []any, a map[string]any, or (inside MarshalJSON's out map) the
\* []JSONLDNode of the Graph field.
AnyNil == [kind |-> "nil"]
AnyString(str) == [kind |-> "string", v |-> str]
AnyStrings(strs) == [kind |-> "[]string", v |-> strs]
AnyAnys(elems) == [kind |-> "[]any", v |-> elems]
AnyMap(m) == [kind |-> "map[string]any", v |-> m]
AnyNodes(nodes) == [kind |-> "[]JSONLDNode", v |-> nodes]

\* A JSON value as encoding/json writes it and a JSON parser reads it back.
JSONNull == [kind |-> "null"]
JSONString(str) == [kind |-> "string", v |-> str]
JSONArray(elems) == [kind |-> "array", v |-> elems]
JSONObject(members) == [kind |-> "object", v |-> members]

ZeroJSONLDNode ==
    [Context |-> AnyNil, ID |-> "", Type |-> AnyNil, Graph |-> <<>>,
     Properties |-> <<>>]

\* out[key] = value on MarshalJSON's out map
Put(out, key, value) ==
    [k \in DOMAIN out \cup {key} |-> IF k = key THEN value ELSE out[k]]

----------------------------------------------------------------------------
(* JSON-LD: JSONLDNode.MarshalJSON *)

\* Variant: a reserved key of Properties is dropped only when the explicit
\* field of that name is written.
MarshalJSONOut_KeepsUnshadowed(n) ==
    LET out0 == n.Properties
        includeContext ==
            /\ n.Context # AnyNil
            /\ ~(n.Context.kind = "string" /\ n.Context.v = "")
        out1 == IF includeContext THEN Put(out0, "@context", n.Context) ELSE out0
        out2 == IF n.ID # "" THEN Put(out1, "@id", AnyString(n.ID)) ELSE out1
        includeType ==
            /\ n.Type # AnyNil
            /\ ~(n.Type.kind = "string" /\ n.Type.v = "")
            /\ ~(n.Type.kind = "[]string" /\ Len(n.Type.v) = 0)
            /\ ~(n.Type.kind = "[]any" /\ Len(n.Type.v) = 0)
        out3 == IF includeType THEN Put(out2, "@type", n.Type) ELSE out2
        out4 == IF Len(n.Graph) > 0 THEN Put(out3, "@graph", AnyNodes(n.Graph)) ELSE out3
    IN  out4

\* Variant: only a nil and an empty-string Type are omitted.
MarshalJSONOut_EmptySliceTypeKept(n) ==
    LET copied == {k \in DOMAIN n.Properties :
                      k # "@context" /\ k # "@id" /\ k # "@type" /\ k # "@graph"}
        out0 == [k \in copied |-> n.Properties[k]]
        includeContext ==
            /\ n.Context # AnyNil
            /\ ~(n.Context.kind = "string" /\ n.Context.v = "")
        out1 == IF includeContext THEN Put(out0, "@context", n.Context) ELSE out0
        out2 == IF n.ID # "" THEN Put(out1, "@id", AnyString(n.ID)) ELSE out1
        includeType ==
            /\ n.Type # AnyNil
            /\ ~(n.Type.kind = "string" /\ n.Type.v = "")
        out3 == IF includeType THEN Put(out2, "@type", n.Type) ELSE out2
        out4 == IF Len(n.Graph) > 0 THEN Put(out3, "@graph", AnyNodes(n.Graph)) ELSE out3
    IN  out4

\* Variant: an empty map or sequence given as Context is omitted as well.
MarshalJSONOut_EmptyContextOmitted(n) ==
    LET copied == {k \in DOMAIN n.Properties :
                      k # "@context" /\ k # "@id" /\ k # "@type" /\ k # "@graph"}
        out0 == [k \in copied |-> n.Properties[k]]
        includeContext ==
            /\ n.Context # AnyNil
            /\ ~(n.Context.kind = "string" /\ n.Context.v = "")
            /\ ~(n.Context.kind \in {"map[string]any", "[]any"} /\ DOMAIN n.Context.v = {})
        out1 == IF includeContext THEN Put(out0, "@context", n.Context) ELSE out0
        out2 == IF n.ID # "" THEN Put(out1, "@id", AnyString(n.ID)) ELSE out1
        includeType ==
            /\ n.Type # AnyNil
            /\ ~(n.Type.kind = "string" /\ n.Type.v = "")
            /\ ~(n.Type.kind = "[]string" /\ Len(n.Type.v) = 0)
            /\ ~(n.Type.kind = "[]any" /\ Len(n.Type.v) = 0)
        out3 == IF includeType THEN Put(out2, "@type", n.Type) ELSE out2
        out4 == IF Len(n.Graph) > 0 THEN Put(out3, "@graph", AnyNodes(n.Graph)) ELSE out3
    IN  out4

\* Variant: the children are written last to first.
MarshalJSONOut_GraphReversed(n) ==
    LET copied == {k \in DOMAIN n.Properties :
                      k # "@context" /\ k # "@id" /\ k # "@type" /\ k # "@graph"}
        out0 == [k \in copied |-> n.Properties[k]]
        includeContext ==
            /\ n.Context # AnyNil
            /\ ~(n.Context.kind = "string" /\ n.Context.v = "")
        out1 == IF includeContext THEN Put(out0, "@context", n.Context) ELSE out0
        out2 == IF n.ID # "" THEN Put(out1, "@id", AnyString(n.ID)) ELSE out1
        includeType ==
            /\ n.Type # AnyNil
            /\ ~(n.Type.kind = "string" /\ n.Type.v = "")
            /\ ~(n.Type.kind = "[]string" /\ Len(n.Type.v) = 0)
            /\ ~(n.Type.kind = "[]any" /\ Len(n.Type.v) = 0)
        out3 == IF includeType THEN Put(out2, "@type", n.Type) ELSE out2
        out4 == IF Len(n.Graph) > 0 THEN Put(out3, "@graph", AnyNodes([i \in DOMAIN n.Graph |-> n.Graph[Len(n.Graph) + 1 - i]])) ELSE out3
    IN  out4

\* The out map as it stands when MarshalJSON hands it to json.Marshal.
MarshalJSONOut(n) ==
    LET copied == {k \in DOMAIN n.Properties :
                      k # "@context" /\ k # "@id" /\ k # "@type" /\ k # "@graph"}
        out0 == [k \in copied |-> n.Properties[k]]
        includeContext ==
            /\ n.Context # AnyNil
            /\ ~(n.Context.kind = "string" /\ n.Context.v = "")
        out1 == IF includeContext THEN Put(out0, "@context", n.Context) ELSE out0
        out2 == IF n.ID # "" THEN Put(out1, "@id", AnyString(n.ID)) ELSE out1
        includeType ==
            /\ n.Type # AnyNil
            /\ ~(n.Type.kind = "string" /\ n.Type.v = "")
            /\ ~(n.Type.kind = "[]string" /\ Len(n.Type.v) = 0)
            /\ ~(n.Type.kind = "[]any" /\ Len(n.Type.v) = 0)
        out3 == IF includeType THEN Put(out2, "@type", n.Type) ELSE out2
        out4 == IF Len(n.Graph) > 0 THEN Put(out3, "@graph", AnyNodes(n.Graph)) ELSE out3
    IN  out4

\* json.Marshal on a value of the kinds above; an element of a []JSONLDNode
\* is encoded by its own MarshalJSON.
RECURSIVE Marshal(_)
Marshal(x) ==
    CASE x.kind = "nil" -> JSONNull
      [] x.kind = "string" -> JSONString(x.v)
      [] x.kind = "[]string" -> JSONArray([i \in DOMAIN x.v |-> JSONString(x.v[i])])
      [] x.kind = "[]any" -> JSONArray([i \in DOMAIN x.v |-> Marshal(x.v[i])])
      [] x.kind = "map[string]any" -> JSONObject([k \in DOMAIN x.v |-> Marshal(x.v[k])])
      [] x.kind = "[]JSONLDNode" ->
            JSONArray([i \in DOMAIN x.v |-> Marshal(AnyMap(MarshalJSONOut(x.v[i])))])

MarshalJSON(n) == Marshal(AnyMap(MarshalJSONOut(n)))

----------------------------------------------------------------------------
(* Web server: handlers *)

\* The two packages that define WebServer.
Packages == {"gotth", "server"}

\* A global middleware is a recording one: it notes its entry, calls next,
\* notes its exit.
MiddlewareNames == {"A", "B"}

MiddlewareSeqs == UNION {[1..n -> MiddlewareNames] : n \in 0..MaxMiddlewares}

\* An http.Handler: the mux, or a middleware's handler around a next one.
NilHandler == [mw |-> "nil"]
MuxHandler == [mw |-> "mux"]
Wrap(m, next) == [mw |-> m, next |-> next]

ZeroWebServer ==
    [pkg |-> "", GlobalMiddlewares |-> <<>>, Layout |-> Nil, mux |-> {},
     Handler |-> NilHandler]

ZeroResponse ==
    [header |-> <<>>, status |-> 0, body |-> <<>>, rendered |-> <<>>,
     httpError |-> <<>>, stderr |-> <<>>, panic |-> NoPanic]

\* for i := len(mws) - 1; i >= 0; i-- { finalHandler = mws[i](finalHandler) }
\* with the slice indexed from 1: i is the position about to be applied.
RECURSIVE ApplyMiddlewares(_, _, _)
ApplyMiddlewares(mws, i, finalHandler) ==
    IF i < 1 THEN finalHandler
    ELSE ApplyMiddlewares(mws, i - 1, Wrap(mws[i], finalHandler))

\* ws.httpServer.Handler as Start leaves it. Package gotth installs the chain;
\* package server installs it and then assigns ws.mux over it.
StartHandler(pkg, mws) ==
    IF pkg = "server" THEN MuxHandler
    ELSE ApplyMiddlewares(mws, Len(mws), MuxHandler)

\* What one ServeHTTP on handler h notes down, route being what the mux's
\* handler notes.
RECURSIVE HandlerTrace(_, _)
HandlerTrace(h, route) ==
    IF h.mw = "mux" THEN route
    ELSE <<[ev |-> "enter", mw |-> h.mw]>>
             \o HandlerTrace(h.next, route)
             \o <<[ev |-> "exit", mw |-> h.mw]>>

\* What the content provider and the layout's Render do is the caller's: the
\* provider fails or not; Render succeeds, fails before it wrote anything, or
\* fails after it wrote part of the page.
ProviderErrs == {NoErr, <<"content provider failed">>}
RenderOutcomes == {"ok", "failsBeforeWrite", "failsAfterWrite"}

SetHeader(resp, key, value) ==
    [resp EXCEPT !.header = [k \in DOMAIN @ \cup {key} |-> IF k = key THEN value ELSE @[k]]]

\* w.Write(chunk): the first write commits the header with status 200.
Write(resp, chunk) ==
    [resp EXCEPT !.body = Append(@, chunk),
                 !.status = IF @ = 0 THEN 200 ELSE @]

\* http.Error(w, msg, code): on a response whose header is not yet committed
\* it replaces Content-Type, writes the status and the message; on a committed
\* one only the message still goes out.
HttpError(resp, msg, code) ==
    LET noted == [resp EXCEPT !.httpError = Append(@, code)]
        open == IF resp.status = 0
                THEN [SetHeader(SetHeader(noted, "Content-Type", "text/plain; charset=utf-8"),
                                "X-Content-Type-Options", "nosniff")
                        EXCEPT !.status = code]
                ELSE noted
    IN  [open EXCEPT !.body = Append(@, msg)]

\* fullPageContent.Render(ctx, w)
Render(resp, layout, render) ==
    LET noted == [resp EXCEPT !.rendered = Append(@, layout)]
    IN  CASE render = "ok" -> Write(noted, "page")
          [] render = "failsBeforeWrite" -> noted
          [] render = "failsAfterWrite" -> Write(noted, "part of page")

\* Variant: a provider error is answered like a render error.
PageHandler_ErrorPage(pkg, layout, path, providerErr, render) ==
    IF providerErr # NoErr
    THEN HttpError([ZeroResponse EXCEPT !.stderr = <<"Error in ContentProvider">>],
                   "Internal Server Error", 500)
    ELSE LET rendered == Render(SetHeader(ZeroResponse, "Content-Type", "text/html; charset=utf-8"),
                                "BasicLayout", render)
         IN  IF render # "ok"
             THEN HttpError([rendered EXCEPT !.stderr = <<"Error rendering page">>],
                            "Internal Server Error", 500)
             ELSE rendered

\* The handler ServeContent (package gotth) or RegisterPage (package server)
\* registers, on one request. Package gotth wraps the content in
\* layout.BasicLayout; package server calls ws.config.Layout, a nil function
\* value when the configuration left it out.
PageHandler(pkg, layout, path, providerErr, render) ==
    IF providerErr # NoErr
    THEN [ZeroResponse EXCEPT !.stderr = <<"Error in ContentProvider">>]
    ELSE IF pkg = "server" /\ layout = Nil
    THEN [ZeroResponse EXCEPT !.panic = "invalid memory address or nil pointer dereference"]
    ELSE LET used == IF pkg = "server" THEN layout ELSE "BasicLayout"
             rendered == Render(SetHeader(ZeroResponse, "Content-Type", "text/html; charset=utf-8"),
                                used, render)
         IN  IF render # "ok"
             THEN HttpError([rendered EXCEPT !.stderr = <<"Error rendering page">>],
                            "Internal Server Error", 500)
             ELSE rendered

\* http.NotFound, the mux's answer to a path no pattern matches.
NotFound == HttpError(ZeroResponse, "404 page not found", 404)

\* The pattern "/" matches every path; any other pattern here matches itself.
Matches(mux, path) == "/" \in mux \/ path \in mux

\* ws.mux.ServeHTTP
MuxServeHTTP(w, path, providerErr, render) ==
    IF Matches(w.mux, path)
    THEN PageHandler(w.pkg, w.Layout, path, providerErr, render)
    ELSE NotFound

----------------------------------------------------------------------------
(* Session middleware: state machine *)

ZeroRequest == [cookies |-> <<>>, ctx |-> [k \in CtxKeys |-> Nil]]
ZeroStore == [UserForSessionID |-> Nil, ErrorForSessionID |-> NoErr,
              InvalidateError |-> NoErr]

SessionInit ==
    /\ handler = "none"
    /\ isSessionIDRequired = FALSE
    /\ ss = ZeroStore
    /\ req = ZeroRequest
    /\ now = 0
    /\ fx = NoEffects

HeadIdle ==
    /\ hvPhase = "idle"
    /\ hvOpts = <<>>
    /\ hvm = ZeroHeadViewModel
    /\ hvPanic = NoPanic

JSONLDIdle ==
    /\ jlPhase = "idle"
    /\ jlNode = ZeroJSONLDNode
    /\ jlOut = JSONNull
    /\ jlBack = [node |-> ZeroJSONLDNode, err |-> NoErr]
    /\ jlAgain = JSONNull

ServerIdle ==
    /\ ws = ZeroWebServer
    /\ startPc = "none"
    /\ startRet = NoErr
    /\ listenPc = "none"
    /\ listenErr = NoErr
    /\ errChan = [buf |-> <<>>, closed |-> FALSE]
    /\ sigPc = "none"
    /\ sigChan = <<>>
    /\ ctxDone = FALSE
    /\ cancelCalled = FALSE
    /\ selectWoken = ""
    /\ shutdownCalls = <<>>
    /\ served = [path |-> "", providerErr |-> NoErr, render |-> "",
                 trace |-> <<>>, resp |-> ZeroResponse]
    /\ hist = [failBeforeSignal |-> FALSE, signalWhileListening |-> FALSE]

Init == SessionInit /\ HeadIdle /\ JSONLDIdle /\ ServerIdle

\* One request served by SessionCheck(store, required, onError)(next).
SessionCheckServeHTTP ==
    /\ handler = "none"
    /\ \E store \in Stores, required \in BOOLEAN, r \in Requests :
          /\ handler' = "SessionCheck"
          /\ isSessionIDRequired' = required
          /\ ss' = store
          /\ req' = r
          /\ fx' = SessionCheck(store, required, r)
    /\ UNCHANGED now
    /\ UNCHANGED headVars
    /\ UNCHANGED jsonldVars
    /\ UNCHANGED serverVars

\* One request served by InvalidateSession(store, onError)(next).
InvalidateSessionServeHTTP ==
    /\ handler = "none"
    /\ \E store \in Stores, r \in Requests, t \in Times :
          /\ handler' = "InvalidateSession"
          /\ ss' = store
          /\ req' = r
          /\ now' = t
          /\ fx' = InvalidateSession(store, r, t)
    /\ UNCHANGED isSessionIDRequired
    /\ UNCHANGED headVars
    /\ UNCHANGED jsonldVars
    /\ UNCHANGED serverVars

Next == SessionCheckServeHTTP \/ InvalidateSessionServeHTTP

Spec == Init /\ [][Next]_vars

\* json.Unmarshal of the JSON value j into the JSONLDNode node. JSONLDNode
\* declares no UnmarshalJSON and every field of it is tagged json:"-", so no
\* member of a JSON object finds a field to go to: members are skipped and node
\* is left as it was. null is a no-op as well; any other JSON value cannot be
\* decoded into a struct.
ErrUnmarshalType == <<"json: cannot unmarshal into Go value of type head.JSONLDNode">>

Unmarshal(j, node) ==
    IF j.kind \in {"object", "null"}
    THEN [node |-> node, err |-> NoErr]
    ELSE [node |-> node, err |-> ErrUnmarshalType]

\* The bytes json.Marshal writes for a JSON value, as a string: no white
\* space, the members of an object sorted by key.
KeyOrder == <<"@context", "@graph", "@id", "@type", "description", "name">>

SortedKeys(members) == SelectSeq(KeyOrder, LAMBDA k : k \in DOMAIN members)

RECURSIVE JoinText(_)
JoinText(texts) ==
    IF texts = <<>> THEN ""
    ELSE IF Len(texts) = 1 THEN texts[1]
    ELSE texts[1] \o "," \o JoinText(Tail(texts))

RECURSIVE JSONText(_)
JSONText(j) ==
    CASE j.kind = "null" -> "null"
      [] j.kind = "string" -> "\"" \o j.v \o "\""
      [] j.kind = "array" ->
            "[" \o JoinText([i \in DOMAIN j.v |-> JSONText(j.v[i])]) \o "]"
      [] j.kind = "object" ->
            "{" \o JoinText([i \in DOMAIN SortedKeys(j.v) |->
                               "\"" \o SortedKeys(j.v)[i] \o "\":"
                                   \o JSONText(j.v[SortedKeys(j.v)[i]])])
                \o "}"

----------------------------------------------------------------------------
(* JSON-LD: state machine *)

JSONLDNode(context, id, type, graph, properties) ==
    [Context |-> context, ID |-> id, Type |-> type, Graph |-> graph,
     Properties |-> properties]

\* The Properties maps of the encoded nodes: empty, without reserved keys,
\* with one reserved key, with all four.
PropertyMaps ==
    { <<>>,
      ("name" :> AnyString("A")),
      ("@id" :> AnyString("should-be-ignored")) @@ ("name" :> AnyString("A")),
      ("@context" :> AnyString("ctx-prop")) @@ ("@id" :> AnyString("id-prop"))
          @@ ("@type" :> AnyString("type-prop"))
          @@ ("@graph" :> AnyStrings(<<"graph-prop">>))
          @@ ("description" :> AnyStrings(<<"d1", "d2">>)) }

ContextValues ==
    { AnyNil, AnyString(""), AnyString("http://schema.org/"),
      AnyMap(<<>>), AnyAnys(<<>>),
      AnyMap(("name" :> AnyString("http://schema.org/name"))) }

IDValues == {"", "real-id"}

TypeValues ==
    { AnyNil, AnyString(""), AnyString("Product"),
      AnyStrings(<<>>), AnyStrings(<<"Product", "Thing">>),
      AnyAnys(<<>>), AnyAnys(<<AnyString("Product")>>), AnyMap(<<>>) }

\* Nodes without a graph.
FlatNodes ==
    { JSONLDNode(c, id, t, <<>>, props) :
        c \in ContextValues, id \in IDValues, t \in TypeValues,
        props \in PropertyMaps }

\* The nodes a graph is built from.
GraphNodes ==
    { JSONLDNode(AnyNil, "real-id", AnyString("Product"), <<>>,
                 ("@id" :> AnyString("should-be-ignored")) @@ ("name" :> AnyString("A"))),
      JSONLDNode(AnyString("http://schema.org/"), "", AnyStrings(<<>>), <<>>,
                 ("@graph" :> AnyStrings(<<"graph-prop">>))
                     @@ ("@type" :> AnyString("type-prop"))) }

\* The nodes given a graph of their own: Properties names @graph as well.
GraphParents == {n \in GraphNodes : "@graph" \in DOMAIN n.Properties}

\* Nodes whose graphs nest at most depth levels deep.
RECURSIVE NestedNodes(_)
NestedNodes(depth) ==
    IF depth = 0 THEN GraphNodes
    ELSE LET below == NestedNodes(depth - 1)
         IN  below \cup
             { [n EXCEPT !.Graph = g] :
                 n \in GraphParents,
                 g \in [1..1 -> below] \cup [1..2 -> below] }

JSONLDNodes == FlatNodes \cup NestedNodes(MaxDepth)

\* One call json.Marshal(n) on a JSONLDNode.
MarshalJSONCall ==
    /\ jlPhase = "idle"
    /\ \E n \in JSONLDNodes :
          /\ jlNode' = n
          /\ jlOut' = MarshalJSON(n)
    /\ jlPhase' = "encoded"
    /\ UNCHANGED <<jlBack, jlAgain>>
    /\ UNCHANGED sessionVars
    /\ UNCHANGED headVars
    /\ UNCHANGED serverVars

\* One call json.Unmarshal(data, &node) on the bytes just produced, node a
\* zero JSONLDNode.
UnmarshalCall ==
    /\ jlPhase = "encoded"
    /\ jlBack' = Unmarshal(jlOut, ZeroJSONLDNode)
    /\ jlPhase' = "decoded"
    /\ UNCHANGED <<jlNode, jlOut, jlAgain>>
    /\ UNCHANGED sessionVars
    /\ UNCHANGED headVars
    /\ UNCHANGED serverVars

\* One call json.Marshal(node) on the node just decoded.
MarshalAgainCall ==
    /\ jlPhase = "decoded"
    /\ jlBack.err = NoErr
    /\ jlAgain' = MarshalJSON(jlBack.node)
    /\ jlPhase' = "reencoded"
    /\ UNCHANGED <<jlNode, jlOut, jlBack>>
    /\ UNCHANGED sessionVars
    /\ UNCHANGED headVars
    /\ UNCHANGED serverVars

NextJSONLD == MarshalJSONCall \/ UnmarshalCall \/ MarshalAgainCall

SpecJSONLD == Init /\ [][NextJSONLD]_vars

----------------------------------------------------------------------------
(* Web server: state machine *)

ShutdownTimeout == 15    \* seconds

ErrServerClosed == <<"http: Server closed">>
ErrBind == <<"listen tcp :8080: bind: address already in use">>
ErrAccept == <<"accept tcp [::]:8080: use of closed network connection">>
ErrDeadlineExceeded == <<"context deadline exceeded">>

\* Seconds the open connections need to finish once Shutdown was called.
DrainTimes == {0, 14, 15, 16}

Signals == {"SIGINT", "SIGTERM"}
RequestPaths == {"/", "/about"}
PagePaths == {"", "/"}
ContentProviders == {Nil, "provider"}
Layouts == {Nil, "BaseLayout"}

\* The cases of Start's select that can proceed.
ErrChanReady == errChan.buf # <<>> \/ errChan.closed
DoneReady == ctxDone \/ cancelCalled

\* A select that is blocked is woken by the first case that becomes ready.
Woken(case) == IF startPc = "blocked" /\ selectWoken = "" THEN case ELSE selectWoken

NoShutdownSignalYet == ~ctxDone /\ ~cancelCalled /\ sigChan = <<>>

\* New(cfg, s), with no static assets configured.
New ==
    /\ startPc = "none"
    /\ \E pkg \in Packages, mws \in MiddlewareSeqs, layout \in Layouts :
          /\ pkg = "gotth" => layout = Nil
          /\ ws' = [pkg |-> pkg, GlobalMiddlewares |-> mws, Layout |-> layout,
                    mux |-> {}, Handler |-> NilHandler]
    /\ startPc' = "created"
    /\ UNCHANGED <<startRet, listenPc, listenErr, errChan, sigPc, sigChan, ctxDone, cancelCalled, selectWoken, shutdownCalls, served, hist>>
    /\ UNCHANGED <<sessionVars, headVars, jsonldVars>>

\* ws.ServeContent(path, contentProvider) (package server: RegisterPage),
\* before Start.
ServeContent ==
    /\ startPc = "created"
    /\ ws.mux = {}
    /\ \E path \in PagePaths, contentProvider \in ContentProviders :
          ws' = IF path = "" \/ contentProvider = Nil
                THEN ws
                ELSE [ws EXCEPT !.mux = @ \cup {path}]
    /\ UNCHANGED <<startPc, startRet, listenPc, listenErr, errChan, sigPc, sigChan, ctxDone, cancelCalled, selectWoken, shutdownCalls, served, hist>>
    /\ UNCHANGED <<sessionVars, headVars, jsonldVars>>

\* Start, up to and including the go statement of the listener goroutine.
Start ==
    /\ startPc = "created"
    /\ ws' = [ws EXCEPT !.Handler = StartHandler(ws.pkg, ws.GlobalMiddlewares)]
    /\ startPc' = "spawned"
    /\ listenPc' = "binding"
    /\ UNCHANGED <<startRet, listenErr, errChan, sigPc, sigChan, ctxDone, cancelCalled, selectWoken, shutdownCalls, served, hist>>
    /\ UNCHANGED <<sessionVars, headVars, jsonldVars>>

\* ListenAndServe has bound the address and accepts connections.
ListenAndServeListens ==
    /\ listenPc = "binding"
    /\ shutdownCalls = <<>>
    /\ listenPc' = "listening"
    /\ UNCHANGED <<ws, startPc, startRet, listenErr, errChan, sigPc, sigChan, ctxDone, cancelCalled, selectWoken, shutdownCalls, served, hist>>
    /\ UNCHANGED <<sessionVars, headVars, jsonldVars>>

\* ListenAndServe returns a failure: the bind failed, or Accept failed later.
ListenAndServeFails ==
    /\ listenPc \in {"binding", "listening"}
    /\ shutdownCalls = <<>>
    /\ listenErr' = IF listenPc = "binding" THEN ErrBind ELSE ErrAccept
    /\ listenPc' = "returned"
    /\ hist' = [hist EXCEPT !.failBeforeSignal = NoShutdownSignalYet]
    /\ UNCHANGED <<ws, startPc, startRet, errChan, sigPc, sigChan, ctxDone, cancelCalled, selectWoken, shutdownCalls, served>>
    /\ UNCHANGED <<sessionVars, headVars, jsonldVars>>

\* ListenAndServe returns ErrServerClosed once Shutdown was called.
ListenAndServeClosed ==
    /\ listenPc \in {"binding", "listening"}
    /\ shutdownCalls # <<>>
    /\ listenErr' = ErrServerClosed
    /\ listenPc' = "returned"
    /\ UNCHANGED <<ws, startPc, startRet, errChan, sigPc, sigChan, ctxDone, cancelCalled, selectWoken, shutdownCalls, served, hist>>
    /\ UNCHANGED <<sessionVars, headVars, jsonldVars>>

\* if err != nil && err != http.ErrServerClosed { errChan <- fmt.Errorf(...) }
\* The send waits for room in the buffer.
ListenerSends ==
    /\ listenPc = "returned"
    /\ IF listenErr # NoErr /\ listenErr # ErrServerClosed
       THEN /\ Len(errChan.buf) < 1
            /\ errChan' = [errChan EXCEPT !.buf = Append(@, Errorf("ListenAndServe failed", listenErr))]
            /\ selectWoken' = Woken("errChan")
       ELSE UNCHANGED <<errChan, selectWoken>>
    /\ listenPc' = "closing"
    /\ UNCHANGED <<ws, startPc, startRet, listenErr, sigPc, sigChan, ctxDone, cancelCalled, shutdownCalls, served, hist>>
    /\ UNCHANGED <<sessionVars, headVars, jsonldVars>>

\* close(errChan), the last statement of the listener goroutine.
ListenerCloses ==
    /\ listenPc = "closing"
    /\ errChan' = [errChan EXCEPT !.closed = TRUE]
    /\ selectWoken' = Woken("errChan")
    /\ listenPc' = "done"
    /\ UNCHANGED <<ws, startPc, startRet, listenErr, sigPc, sigChan, ctxDone, cancelCalled, shutdownCalls, served, hist>>
    /\ UNCHANGED <<sessionVars, headVars, jsonldVars>>

\* Start proceeds with one case of its select. errChan: return what was
\* received (nil from a closed, empty channel). Done: call
\* httpServer.Shutdown with a context that times out after ShutdownTimeout.
TakeCase(case) ==
    IF case = "errChan"
    THEN /\ startRet' = IF errChan.buf # <<>> THEN Head(errChan.buf) ELSE NoErr
         /\ errChan' = [errChan EXCEPT !.buf = IF @ # <<>> THEN Tail(@) ELSE @]
         /\ startPc' = "returned"
         /\ UNCHANGED shutdownCalls
    ELSE /\ shutdownCalls' = Append(shutdownCalls, [timeout |-> ShutdownTimeout, returned |-> FALSE, err |-> NoErr])
         /\ startPc' = "inShutdown"
         /\ UNCHANGED <<startRet, errChan>>

\* Start reaches its select: gracefulShutdownContext registers sigChan and
\* starts the signal goroutine; then a ready case is taken, any of them when
\* both are ready, or Start blocks.
StartSelects ==
    /\ startPc = "spawned"
    /\ sigPc' = "waiting"
    /\ LET ready == {c \in {"errChan"} : ErrChanReady} \cup {c \in {"done"} : DoneReady}
       IN  IF ready = {}
           THEN /\ startPc' = "blocked"
                /\ UNCHANGED <<startRet, errChan, shutdownCalls>>
           ELSE \E case \in ready : TakeCase(case)
    /\ UNCHANGED <<ws, listenPc, listenErr, sigChan, ctxDone, cancelCalled, selectWoken, served, hist>>
    /\ UNCHANGED <<sessionVars, headVars, jsonldVars>>

\* Start, blocked in its select, proceeds with the case that woke it.
StartWakes ==
    /\ startPc = "blocked"
    /\ selectWoken # ""
    /\ TakeCase(selectWoken)
    /\ UNCHANGED <<ws, listenPc, listenErr, sigPc, sigChan, ctxDone, cancelCalled, selectWoken, served, hist>>
    /\ UNCHANGED <<sessionVars, headVars, jsonldVars>>

\* Variant: Start returns nil whatever Shutdown returned.
ShutdownReturns_IgnoresFailure ==
    /\ startPc = "inShutdown"
    /\ \E drain \in DrainTimes :
          LET call == shutdownCalls[Len(shutdownCalls)]
              err == IF drain < call.timeout THEN NoErr ELSE ErrDeadlineExceeded
          IN  shutdownCalls' = [shutdownCalls EXCEPT ![Len(shutdownCalls)] = [call EXCEPT !.returned = TRUE, !.err = err]]
    /\ startRet' = NoErr
    /\ startPc' = "returned"
    /\ UNCHANGED <<ws, listenPc, listenErr, errChan, sigPc, sigChan, ctxDone, cancelCalled, selectWoken, served, hist>>
    /\ UNCHANGED <<sessionVars, headVars, jsonldVars>>

\* httpServer.Shutdown returns: nil when the connections finished before the
\* timeout, the context's error otherwise; Start returns accordingly.
ShutdownReturns ==
    /\ startPc = "inShutdown"
    /\ \E drain \in DrainTimes :
          LET call == shutdownCalls[Len(shutdownCalls)]
              err == IF drain < call.timeout THEN NoErr ELSE ErrDeadlineExceeded
          IN  /\ shutdownCalls' = [shutdownCalls EXCEPT ![Len(shutdownCalls)] = [call EXCEPT !.returned = TRUE, !.err = err]]
              /\ startRet' = IF err # NoErr THEN Errorf("server shutdown failed", err) ELSE NoErr
    /\ startPc' = "returned"
    /\ UNCHANGED <<ws, listenPc, listenErr, errChan, sigPc, sigChan, ctxDone, cancelCalled, selectWoken, served, hist>>
    /\ UNCHANGED <<sessionVars, headVars, jsonldVars>>

\* The caller cancels the context it passed (or will pass) to Start.
CancelContext ==
    /\ startPc \in {"created", "spawned", "blocked"}
    /\ ~ctxDone
    /\ ctxDone' = TRUE
    /\ selectWoken' = Woken("done")
    /\ hist' = [hist EXCEPT !.signalWhileListening = @ \/ listenPc = "listening"]
    /\ UNCHANGED <<ws, startPc, startRet, listenPc, listenErr, errChan, sigPc, sigChan, cancelCalled, shutdownCalls, served>>
    /\ UNCHANGED <<sessionVars, headVars, jsonldVars>>

\* SIGINT or SIGTERM is delivered to the registered sigChan.
SignalArrives ==
    /\ sigPc = "waiting"
    /\ startPc \in {"blocked", "inShutdown"}
    /\ sigChan = <<>>
    /\ \E sig \in Signals : sigChan' = <<sig>>
    /\ hist' = [hist EXCEPT !.signalWhileListening = @ \/ listenPc = "listening"]
    /\ UNCHANGED <<ws, startPc, startRet, listenPc, listenErr, errChan, sigPc, ctxDone, cancelCalled, selectWoken, shutdownCalls, served>>
    /\ UNCHANGED <<sessionVars, headVars, jsonldVars>>

\* The signal goroutine: <-sigChan; cancel(); then the deferred signal.Stop.
SignalGoroutine ==
    /\ sigPc = "waiting"
    /\ sigChan # <<>>
    /\ sigChan' = Tail(sigChan)
    /\ cancelCalled' = TRUE
    /\ selectWoken' = Woken("done")
    /\ sigPc' = "done"
    /\ UNCHANGED <<ws, startPc, startRet, listenPc, listenErr, errChan, ctxDone, shutdownCalls, served, hist>>
    /\ UNCHANGED <<sessionVars, headVars, jsonldVars>>

\* The listening server serves one request through httpServer.Handler.
ServeRequest ==
    /\ listenPc = "listening"
    /\ shutdownCalls = <<>>
    /\ served.path = ""
    /\ \E path \in RequestPaths, providerErr \in ProviderErrs, render \in RenderOutcomes :
          served' = [path |-> path, providerErr |-> providerErr, render |-> render,
                     trace |-> HandlerTrace(ws.Handler, <<[ev |-> "route", mw |-> "mux"]>>),
                     resp |-> MuxServeHTTP(ws, path, providerErr, render)]
    /\ UNCHANGED <<ws, startPc, startRet, listenPc, listenErr, errChan, sigPc, sigChan, ctxDone, cancelCalled, selectWoken, shutdownCalls, hist>>
    /\ UNCHANGED <<sessionVars, headVars, jsonldVars>>

\* Start's lifecycle on its own, no page registered and no request served.
NextLifecycle ==
    \/ New
    \/ Start
    \/ ListenAndServeListens
    \/ ListenAndServeFails
    \/ ListenAndServeClosed
    \/ ListenerSends
    \/ ListenerCloses
    \/ StartSelects
    \/ StartWakes
    \/ ShutdownReturns
    \/ CancelContext
    \/ SignalArrives
    \/ SignalGoroutine

NextServer ==
    \/ NextLifecycle
    \/ ServeContent
    \/ ServeRequest

SpecServer == Init /\ [][NextServer]_vars

\* The Go scheduler runs every goroutine that can run, and Shutdown returns
\* when its context times out at the latest.
SpecServerLive ==
    /\ Init /\ [][NextLifecycle]_vars
    /\ WF_vars(StartSelects)
    /\ WF_vars(StartWakes)
    /\ WF_vars(ShutdownReturns)
    /\ WF_vars(SignalGoroutine)
    /\ WF_vars(ListenerSends)
    /\ WF_vars(ListenerCloses)
    /\ WF_vars(ListenAndServeClosed)

----------------------------------------------------------------------------
(* Head view model: state machine *)

OptPageCoreMetadata(title, description, canonicalURL) ==
    [op |-> "WithPageCoreMetadata", title |-> title, description |-> description,
     canonicalURL |-> canonicalURL]

OptOpenGraph(ogType, ogLocale, ogURL, ogTitle, ogDescription, ogImage, imgWidth, imgHeight, imgAlt) ==
    [op |-> "WithOpenGraph", ogType |-> ogType, ogLocale |-> ogLocale,
     ogURL |-> ogURL, ogTitle |-> ogTitle, ogDescription |-> ogDescription,
     ogImage |-> ogImage, imgWidth |-> imgWidth, imgHeight |-> imgHeight,
     imgAlt |-> imgAlt]

OptTwitterCard(cardType, siteHandle, creatorHandle, title, description, image, imageAlt) ==
    [op |-> "WithTwitterCard", cardType |-> cardType, siteHandle |-> siteHandle,
     creatorHandle |-> creatorHandle, title |-> title,
     description |-> description, image |-> image, imageAlt |-> imageAlt]

OptKeywords(keywords) == [op |-> "WithKeywords", keywords |-> keywords]

OptViewport(viewport) == [op |-> "WithViewport", viewport |-> viewport]

OptMicrosoftOptions(tileColor, browserConfigPath, startURL) ==
    [op |-> "WithMicrosoftOptions", tileColor |-> tileColor,
     browserConfigPath |-> browserConfigPath, startURL |-> startURL]

OptJSONLD(jsonLD) == [op |-> "WithJSONLD", jsonLD |-> jsonLD]

OptFont(href, crossOrigin) ==
    [op |-> "WithFont", href |-> href, crossOrigin |-> crossOrigin]

OptStylesheet(href, media, integrity, crossOrigin) ==
    [op |-> "WithStylesheet", href |-> href, media |-> media,
     integrity |-> integrity, crossOrigin |-> crossOrigin]

OptHeaderScript(src, isAsync, isDefer, scriptType, integrity, crossOrigin) ==
    [op |-> "WithHeaderScript", src |-> src, isAsync |-> isAsync,
     isDefer |-> isDefer, scriptType |-> scriptType, integrity |-> integrity,
     crossOrigin |-> crossOrigin]

OptCustomMetaTag(key, value) ==
    [op |-> "WithCustomMetaTag", key |-> key, value |-> value]

\* The node handed to WithJSONLD in the checked runs.
ProductNode ==
    JSONLDNode(AnyString("http://schema.org/"), "real-id", AnyString("Product"),
               <<>>, ("name" :> AnyString("A")))

\* The options a caller passes in the checked runs.
HeadOptions ==
    { OptPageCoreMetadata("T", "D", "/u"),
      OptPageCoreMetadata("", "", ""),
      OptOpenGraph("", "", "", "X", "", "", "", "", ""),
      OptOpenGraph("article", "", "/og", "Y", "OD", "/img.png", "1200", "630", "alt"),
      OptOpenGraph("", "", "", "", "", "", "", "", ""),
      OptTwitterCard("", "@site", "", "TT", "", "", ""),
      OptTwitterCard("summary", "", "", "", "TD", "/tw.png", "twalt"),
      OptViewport("width=800"),
      OptViewport(""),
      OptMicrosoftOptions("#FFFFFF", "", "/app"),
      OptMicrosoftOptions("", "/browserconfig.xml", ""),
      OptKeywords(<<"a", "b">>),
      OptKeywords(<<"c">>),
      OptFont("/f.woff2", TRUE),
      OptFont("/g.woff2", FALSE),
      OptStylesheet("/s.css", "screen", "", "anonymous"),
      OptHeaderScript("/x.js", TRUE, FALSE, "module", "", ""),
      OptJSONLD(ProductNode),
      OptCustomMetaTag("robots", "noindex") }

HeadOptionSeqs == UNION {[1..n -> HeadOptions] : n \in 0..MaxOpts}

\* One call NewHeadViewModel(opts...).
NewHeadViewModelCall ==
    /\ hvPhase = "idle"
    /\ \E opts \in HeadOptionSeqs :
          /\ hvOpts' = opts
          /\ hvm' = NewHeadViewModel(opts)
          /\ hvPanic' = OptionsPanic(DefaultHeadViewModel, opts)
    /\ hvPhase' = "built"
    /\ UNCHANGED sessionVars
    /\ UNCHANGED jsonldVars
    /\ UNCHANGED serverVars

\* One call NewViewModel[HeadViewModel](data...).
NewViewModelCall ==
    /\ hvPhase = "idle"
    /\ \E data \in HeadOptionSeqs :
          /\ hvOpts' = data
          /\ hvm' = NewViewModel(data).vm
          /\ hvPanic' = NewViewModel(data).panic
    /\ hvPhase' = "applied"
    /\ UNCHANGED sessionVars
    /\ UNCHANGED jsonldVars
    /\ UNCHANGED serverVars

NextHead == NewHeadViewModelCall \/ NewViewModelCall

SpecHead == Init /\ [][NextHead]_vars

----------------------------------------------------------------------------
(* Session middleware: properties *)

\* What the request carries, read off the request itself.
HasSessionCookie(r) ==
    \E i \in DOMAIN r.cookies : r.cookies[i].Name = SESSION_COOKIE_NAME

\* The session cookie the server sees: the first one of that name.
IsFirstSessionCookie(r, i) ==
    /\ i \in DOMAIN r.cookies
    /\ r.cookies[i].Name = SESSION_COOKIE_NAME
    /\ \A j \in 1..(i - 1) : r.cookies[j].Name # SESSION_COOKIE_NAME

SessionCookieValid(r) ==
    \E i \in DOMAIN r.cookies :
        IsFirstSessionCookie(r, i) /\ r.cookies[i].validErr = NoErr

SessionCookieInvalid(r) ==
    \E i \in DOMAIN r.cookies :
        IsFirstSessionCookie(r, i) /\ r.cookies[i].validErr # NoErr

SessionCookieValue(r) ==
    r.cookies[CHOOSE i \in DOMAIN r.cookies : IsFirstSessionCookie(r, i)].Value

SessionCookieValidErr(r) ==
    r.cookies[CHOOSE i \in DOMAIN r.cookies : IsFirstSessionCookie(r, i)].validErr

ServedBySessionCheck == handler = "SessionCheck"
ServedByInvalidateSession == handler = "InvalidateSession"

\* C1: SessionCheck, required=true, request without a session_id cookie:
\* onError is invoked exactly once with http.ErrNoCookie, the next handler is
\* never invoked and the store's ExchangeSessionIDForUser is never called.
C1_RequiredMissingCookie ==
    (ServedBySessionCheck /\ isSessionIDRequired /\ ~HasSessionCookie(req))
        => /\ fx.onError = <<ErrNoCookie>>
           /\ fx.next = <<>>
           /\ fx.exchange = <<>>

\* The case of C1 on a request that does carry a cookie, only not session_id.
C1_Witness ==
    /\ ServedBySessionCheck
    /\ isSessionIDRequired
    /\ ~HasSessionCookie(req)
    /\ Len(req.cookies) = 1
    /\ fx.trace = <<"onError">>

C3_SuccessInjectsUser ==
    (/\ ServedBySessionCheck
     /\ SessionCookieValid(req)
     /\ ss.ErrorForSessionID = NoErr)
        => /\ Len(fx.next) = 1
           /\ GetUser(fx.next[1].ctx) = ss.UserForSessionID
           /\ fx.onError = <<>>

\* The case of C3 where the injected user replaces another one.
C3_Witness ==
    /\ ServedBySessionCheck
    /\ isSessionIDRequired
    /\ SessionCookieValid(req)
    /\ ss.ErrorForSessionID = NoErr
    /\ ss.UserForSessionID = "user123"
    /\ GetUser(req.ctx) = "user789"
    /\ Len(fx.next) = 1
    /\ GetUser(fx.next[1].ctx) = "user123"

\* The three failure kinds of SessionCheck and the error each one carries.
FailureKind(r, store) ==
    IF ~HasSessionCookie(r) THEN "missing"
    ELSE IF SessionCookieInvalid(r) THEN "invalid"
    ELSE IF store.ErrorForSessionID # NoErr THEN "exchange"
    ELSE "none"

FailureErr(r, store) ==
    IF ~HasSessionCookie(r) THEN ErrNoCookie
    ELSE IF SessionCookieInvalid(r) THEN SessionCookieValidErr(r)
    ELSE store.ErrorForSessionID

\* C4: SessionCheck: on each of the three failure kinds (cookie missing,
\* cookie invalid, exchange fails) the outcome depends only on required:
\* required=false: next invoked exactly once with the unchanged request and
\* onError never; required=true: onError invoked exactly once with that
\* failure's own error and next never. In every run exactly one of
\* {next, onError} is invoked, exactly once.
C4_FailuresCollapse ==
    ServedBySessionCheck
        => /\ Len(fx.next) + Len(fx.onError) = 1
           /\ FailureKind(req, ss) # "none"
                => IF isSessionIDRequired
                   THEN fx.onError = <<FailureErr(req, ss)>> /\ fx.next = <<>>
                   ELSE fx.next = <<req>> /\ fx.onError = <<>>

\* The invalid-cookie failure on an optional route: passed on untouched.
C4_Witness ==
    /\ ServedBySessionCheck
    /\ ~isSessionIDRequired
    /\ FailureKind(req, ss) = "invalid"
    /\ fx.next = <<req>>
    /\ fx.onError = <<>>

\* The cookie InvalidateSession sends to make the client drop its session.
ExpiredSessionCookie(value, expires) ==
    [Name |-> SESSION_COOKIE_NAME, Value |-> value, Path |-> "/",
     Expires |-> expires, HttpOnly |-> TRUE, SameSite |-> "Lax"]

\* C5: InvalidateSession, valid session cookie present, no user in the request
\* context: onError is invoked with the "user object is nil for an authorized
\* request" error, the store's InvalidateSession is never called, no cookie is
\* set on the response and the next handler is never invoked.
C5_NoUserInContext ==
    (/\ ServedByInvalidateSession
     /\ SessionCookieValid(req)
     /\ GetUser(req.ctx) = Nil)
        => /\ fx.onError = <<ErrUserNil>>
           /\ fx.invalidate = <<>>
           /\ fx.setCookie = <<>>
           /\ fx.next = <<>>

\* The case of C5 with a store that would have invalidated the session.
C5_Witness ==
    /\ ServedByInvalidateSession
    /\ SessionCookieValid(req)
    /\ GetUser(req.ctx) = Nil
    /\ ss.InvalidateError = NoErr
    /\ fx.trace = <<"onError">>

\* C6: InvalidateSession, valid cookie, user in context, the store succeeds:
\* the store is called with the context's user and the cookie's value, then a
\* response cookie session_id with the original value, an expiry in the past,
\* path "/", HttpOnly and SameSite=Lax is set, then the next handler is
\* invoked exactly once; onError is never invoked.
C6_InvalidateSuccess ==
    (/\ ServedByInvalidateSession
     /\ SessionCookieValid(req)
     /\ GetUser(req.ctx) # Nil
     /\ ss.InvalidateError = NoErr)
        => /\ fx.invalidate = <<[user |-> GetUser(req.ctx),
                                 sessionID |-> SessionCookieValue(req)]>>
           /\ Len(fx.setCookie) = 1
           /\ fx.setCookie[1].Expires < now
           /\ fx.setCookie[1] = ExpiredSessionCookie(SessionCookieValue(req),
                                                      fx.setCookie[1].Expires)
           /\ fx.next = <<req>>
           /\ fx.onError = <<>>
           /\ fx.trace = <<"InvalidateSession", "SetCookie", "next">>

\* The case of C6 on a request with two session_id cookies of different value:
\* the first one is the session that is invalidated and expired.
C6_Witness ==
    /\ ServedByInvalidateSession
    /\ SessionCookieValid(req)
    /\ GetUser(req.ctx) = "user789"
    /\ ss.InvalidateError = NoErr
    /\ Len(req.cookies) = 2
    /\ req.cookies[1].Name = SESSION_COOKIE_NAME
    /\ req.cookies[2].Name = SESSION_COOKIE_NAME
    /\ req.cookies[1].Value # req.cookies[2].Value
    /\ Len(fx.setCookie) = 1
    /\ fx.setCookie[1].Value = req.cookies[1].Value
    /\ fx.trace = <<"InvalidateSession", "SetCookie", "next">>

\* C7: InvalidateSession, the store's InvalidateSession fails: onError is
\* invoked exactly once with an error from which the store's error is
\* recovered by unwrapping, the next handler is never invoked and no cookie
\* is set on the response.
C7_StoreFailureWrapped ==
    (/\ ServedByInvalidateSession
     /\ HasSessionCookie(req)
     /\ GetUser(req.ctx) # Nil
     /\ ss.InvalidateError # NoErr)
        => /\ Len(fx.onError) = 1
           /\ ErrorsIs(fx.onError[1], ss.InvalidateError)
           /\ fx.onError[1] # ss.InvalidateError
           /\ fx.next = <<>>
           /\ fx.setCookie = <<>>

\* The case of C7: the store was called and its failure reached onError.
C7_Witness ==
    /\ ServedByInvalidateSession
    /\ SessionCookieValid(req)
    /\ GetUser(req.ctx) # Nil
    /\ ss.InvalidateError # NoErr
    /\ fx.trace = <<"InvalidateSession", "onError">>
    /\ ErrorsIs(fx.onError[1], ss.InvalidateError)

\* C8: InvalidateSession, request without a session_id cookie: onError is
\* invoked exactly once with http.ErrNoCookie, the next handler is never
\* invoked and the store's InvalidateSession is never called, with or without
\* a user in the context.
C8_InvalidateMissingCookie ==
    (ServedByInvalidateSession /\ ~HasSessionCookie(req))
        => /\ fx.onError = <<ErrNoCookie>>
           /\ fx.next = <<>>
           /\ fx.invalidate = <<>>

\* The case of C8 without a user in the context.
C8_Witness ==
    /\ ServedByInvalidateSession
    /\ ~HasSessionCookie(req)
    /\ GetUser(req.ctx) = Nil
    /\ fx.onError = <<ErrNoCookie>>

\* C9 as stated: InvalidateSession, session cookie present but failing the
\* validity check: onError is invoked and processing stops: the store is not
\* called, no cookie is set and the next handler is not invoked.
C9_InvalidCookieRejected ==
    (ServedByInvalidateSession /\ SessionCookieInvalid(req))
        => /\ fx.onError # <<>>
           /\ fx.invalidate = <<>>
           /\ fx.setCookie = <<>>
           /\ fx.next = <<>>

\* C9 as the code has it: InvalidateSession applies no validity check, so a
\* session cookie that is present but invalid is handled like a valid one:
\* without a user in the context onError gets the nil-user error and nothing
\* else happens; with a user the store is called with that user and the
\* cookie's value, and then either its failure goes to onError (no cookie
\* set, next not invoked) or the cookie is expired and next is invoked.
C9_InvalidCookieNotChecked ==
    (ServedByInvalidateSession /\ SessionCookieInvalid(req))
        => IF GetUser(req.ctx) = Nil
           THEN /\ fx.onError = <<ErrUserNil>>
                /\ fx.invalidate = <<>>
                /\ fx.setCookie = <<>>
                /\ fx.next = <<>>
           ELSE /\ fx.invalidate = <<[user |-> GetUser(req.ctx),
                                      sessionID |-> SessionCookieValue(req)]>>
                /\ IF ss.InvalidateError # NoErr
                   THEN /\ Len(fx.onError) = 1
                        /\ ErrorsIs(fx.onError[1], ss.InvalidateError)
                        /\ fx.setCookie = <<>>
                        /\ fx.next = <<>>
                   ELSE /\ fx.onError = <<>>
                        /\ Len(fx.setCookie) = 1
                        /\ fx.setCookie[1].Value = SessionCookieValue(req)
                        /\ fx.next = <<req>>

\* An invalid session cookie that got the session invalidated all the same.
C9_Witness ==
    /\ ServedByInvalidateSession
    /\ SessionCookieInvalid(req)
    /\ GetUser(req.ctx) # Nil
    /\ ss.InvalidateError = NoErr
    /\ fx.trace = <<"InvalidateSession", "SetCookie", "next">>

----------------------------------------------------------------------------
(* Head view model: properties *)

HeadBuilt == hvPhase = "built"

\* Option i of the call sets the OpenGraph title to a non-empty value.
SetsOgTitle(opts, i) ==
    /\ i \in DOMAIN opts
    /\ opts[i].op = "WithOpenGraph"
    /\ opts[i].ogTitle # ""

SetsPageTitle(opts, i) ==
    /\ i \in DOMAIN opts
    /\ opts[i].op = "WithPageCoreMetadata"
    /\ opts[i].title # ""

\* C10: NewHeadViewModel: when some option sets the OpenGraph title to a
\* non-empty X and no later option sets another non-empty OpenGraph title, the
\* resolved OgTitle is X and not the page title, wherever in the sequence the
\* page-title option stands.
C10_ExplicitOgTitleKept ==
    HeadBuilt =>
        \A i \in DOMAIN hvOpts :
            (SetsOgTitle(hvOpts, i)
             /\ \A j \in (i + 1)..Len(hvOpts) : ~SetsOgTitle(hvOpts, j))
                => hvm.Metadata.OgTitle = hvOpts[i].ogTitle

\* The case of C10 with the page title set both before and after the
\* OpenGraph title.
C10_Witness ==
    /\ HeadBuilt
    /\ Len(hvOpts) = 3
    /\ SetsPageTitle(hvOpts, 1)
    /\ SetsOgTitle(hvOpts, 2)
    /\ SetsPageTitle(hvOpts, 3)
    /\ hvm.Metadata.Title = "T"
    /\ hvm.Metadata.OgTitle = "X"

----------------------------------------------------------------------------
(* Head view model: what a call's options say, read off the options *)

\* The options of kind op in opts, by position.
OptionsOf(opts, op) == {i \in DOMAIN opts : opts[i].op = op}

LastIndex(S) == CHOOSE i \in S : \A j \in S : j <= i

\* The argument the last option of kind op gave for arg; none when no option
\* of that kind was passed.
LastArg(opts, op, arg, none) ==
    IF OptionsOf(opts, op) = {} THEN none
    ELSE opts[LastIndex(OptionsOf(opts, op))][arg]

\* The options of kind op that gave a non-empty arg.
SettersOf(opts, op, arg) == {i \in OptionsOf(opts, op) : opts[i][arg] # ""}

\* The last non-empty argument an option of kind op gave for arg.
LastNonEmptyArg(opts, op, arg, none) ==
    IF SettersOf(opts, op, arg) = {} THEN none
    ELSE opts[LastIndex(SettersOf(opts, op, arg))][arg]

\* C11: NewHeadViewModel: for every option sequence, OgURL is the final
\* canonical URL, OgTitle the final page title, OgDescription the final page
\* description and TwitterImage the final OgImage, each whenever no option set
\* that target to a non-empty value; "final" is what the options left after
\* all of them ran.
C11_FallbacksAfterAllOptions ==
    HeadBuilt =>
        /\ SettersOf(hvOpts, "WithOpenGraph", "ogURL") = {}
              => hvm.Metadata.OgURL
                    = LastArg(hvOpts, "WithPageCoreMetadata", "canonicalURL", "")
        /\ SettersOf(hvOpts, "WithOpenGraph", "ogTitle") = {}
              => hvm.Metadata.OgTitle
                    = LastArg(hvOpts, "WithPageCoreMetadata", "title", "")
        /\ SettersOf(hvOpts, "WithOpenGraph", "ogDescription") = {}
              => hvm.Metadata.OgDescription
                    = LastArg(hvOpts, "WithPageCoreMetadata", "description", "")
        /\ SettersOf(hvOpts, "WithTwitterCard", "image") = {}
              => hvm.Metadata.TwitterImage
                    = LastNonEmptyArg(hvOpts, "WithOpenGraph", "ogImage", "")

\* The call NewHeadViewModel(WithPageCoreMetadata("T", "D", "/u")).
C11_Witness ==
    /\ HeadBuilt
    /\ hvOpts = <<OptPageCoreMetadata("T", "D", "/u")>>
    /\ hvm.Metadata.OgTitle = "T"
    /\ hvm.Metadata.OgDescription = "D"
    /\ hvm.Metadata.OgURL = "/u"
    /\ hvm.Metadata.TwitterImage = ""

\* C12: NewHeadViewModel: when no option sets a non-empty Twitter image alt,
\* the resolved TwitterImageAlt is the OpenGraph image alt if that is
\* non-empty; otherwise "Image for " followed by the Twitter title if the
\* Twitter title is non-empty; otherwise empty. A non-empty Twitter image alt
\* set by an option is never replaced.
C12_TwitterImageAlt ==
    HeadBuilt =>
        LET ogAlt == LastNonEmptyArg(hvOpts, "WithOpenGraph", "imgAlt", "")
            twTitle == LastNonEmptyArg(hvOpts, "WithTwitterCard", "title", "")
            twAlt == LastNonEmptyArg(hvOpts, "WithTwitterCard", "imageAlt", "")
        IN  hvm.Metadata.TwitterImageAlt =
                IF twAlt # "" THEN twAlt
                ELSE IF ogAlt # "" THEN ogAlt
                ELSE IF twTitle # "" THEN "Image for " \o twTitle
                ELSE ""

\* The three fallback cases of C12 that produce a non-empty alt: both an
\* OpenGraph alt and a Twitter title at hand (the OpenGraph alt is taken),
\* only a Twitter title at hand, and an explicit alt next to both.
C12_Witness ==
    /\ HeadBuilt
    /\ SettersOf(hvOpts, "WithTwitterCard", "imageAlt") = {}
    /\ SettersOf(hvOpts, "WithTwitterCard", "title") # {}
    /\ SettersOf(hvOpts, "WithOpenGraph", "imgAlt") # {}
    /\ hvm.Metadata.TwitterTitle = "TT"
    /\ hvm.Metadata.TwitterImageAlt = "alt"

C12_WitnessSynthesized ==
    /\ HeadBuilt
    /\ SettersOf(hvOpts, "WithTwitterCard", "imageAlt") = {}
    /\ SettersOf(hvOpts, "WithOpenGraph", "imgAlt") = {}
    /\ hvm.Metadata.TwitterImageAlt = "Image for TT"

C12_WitnessExplicit ==
    /\ HeadBuilt
    /\ SettersOf(hvOpts, "WithOpenGraph", "imgAlt") # {}
    /\ hvm.Metadata.TwitterTitle = "TT"
    /\ hvm.Metadata.TwitterImageAlt = "twalt"

\* The OpenGraph title and description a call's options resolve to: the last
\* non-empty OpenGraph argument, else the last page-metadata argument.
ResolvedOgTitle(opts) ==
    IF LastNonEmptyArg(opts, "WithOpenGraph", "ogTitle", "") # ""
    THEN LastNonEmptyArg(opts, "WithOpenGraph", "ogTitle", "")
    ELSE LastArg(opts, "WithPageCoreMetadata", "title", "")

ResolvedOgDescription(opts) ==
    IF LastNonEmptyArg(opts, "WithOpenGraph", "ogDescription", "") # ""
    THEN LastNonEmptyArg(opts, "WithOpenGraph", "ogDescription", "")
    ELSE LastArg(opts, "WithPageCoreMetadata", "description", "")

\* C13: NewHeadViewModel: when no option sets the Twitter title (description),
\* the resolved TwitterTitle (TwitterDescription) falls back to the OpenGraph
\* value, or to the main page title (description) when there is none.
C13_TwitterTextFallsBack ==
    HeadBuilt =>
        /\ SettersOf(hvOpts, "WithTwitterCard", "title") = {}
              => hvm.Metadata.TwitterTitle = ResolvedOgTitle(hvOpts)
        /\ SettersOf(hvOpts, "WithTwitterCard", "description") = {}
              => hvm.Metadata.TwitterDescription = ResolvedOgDescription(hvOpts)

\* C14: NewHeadViewModel called with zero options returns a value in which
\* only the listed defaults are populated (viewport, Microsoft start URL,
\* OpenGraph type and locale, Twitter card type, the three script-library
\* paths, an empty non-nil custom-meta-tag map) and every SEO field is empty,
\* also after the fallback step; no panic is raised.
C14_ZeroOptionsDefaults ==
    (HeadBuilt /\ hvOpts = <<>>) =>
        /\ hvPanic = NoPanic
        /\ hvm =
            [Name |-> "",
             Metadata |->
                [Title |-> "", Description |-> "", URL |-> "",
                 Author |-> "", Keywords |-> <<>>, SchemaImageURL |-> "",
                 ViewPort |-> "width=device-width, initial-scale=1.0",
                 OgURL |-> "", OgTitle |-> "", OgDescription |-> "",
                 OgImage |-> "", OgImageWidth |-> "", OgImageHeight |-> "",
                 OgImageAlt |-> "",
                 TwitterTitle |-> "", TwitterDescription |-> "",
                 TwitterImage |-> "", TwitterImageAlt |-> ""],
             FaviconPath |-> "", FaviconType |-> "", AppleTouchIconPath |-> "",
             MsTileColor |-> "", MsBrowserConfigPath |-> "", MsStartURL |-> "/",
             OgType |-> "website", OgLocale |-> "en_US",
             TwitterCardType |-> "summary_large_image",
             TwitterSiteHandle |-> "", TwitterCreatorHandle |-> "",
             ThemeColor |-> "", AppleStatusBarColor |-> "", ColorScheme |-> "",
             IncludeHTMX |-> FALSE, HTMXPath |-> "/static/js/htmx.min.js",
             IncludeHTMXPreload |-> FALSE,
             HTMXPreloadPath |-> "https://unpkg.com/htmx-ext-preload@2.0.1/preload.js",
             IncludeAlpineJS |-> FALSE,
             AlpineJSPath |-> "https://cdn.jsdelivr.net/npm/alpinejs@3.x.x/dist/cdn.min.js",
             Fonts |-> <<>>, Stylesheets |-> <<>>, HeaderScripts |-> <<>>,
             IsAnalyticsEnabled |-> FALSE, MeasuramentID |-> "",
             PreparedJSONLD |-> "",
             CustomMetaTags |-> [isNil |-> FALSE, kv |-> <<>>]]

\* The call NewHeadViewModel() has returned.
C14_Witness ==
    /\ HeadBuilt
    /\ hvOpts = <<>>
    /\ hvm.Metadata.ViewPort = "width=device-width, initial-scale=1.0"
    /\ hvm.Metadata.TwitterImageAlt = ""
    /\ ~hvm.CustomMetaTags.isNil

\* Several options of kind op were passed.
SeveralOf(opts, op) == Cardinality(OptionsOf(opts, op)) >= 2

C16_WitnessUnconditional ==
    /\ HeadBuilt
    /\ hvOpts = <<OptPageCoreMetadata("T", "D", "/u"), OptPageCoreMetadata("", "", "")>>
    /\ hvm.Metadata.Title = ""

\* C17: WithJSONLD marshals the given JSON-LD node and stores the result as
\* the prepared JSON-LD string, or is rejected explicitly: after a call whose
\* options include WithJSONLD(node), PreparedJSONLD holds the encoding of the
\* node of the last such option, unless the call was stopped by a panic.
C17_JSONLDStored ==
    (HeadBuilt /\ OptionsOf(hvOpts, "WithJSONLD") # {}) =>
        \/ hvPanic # NoPanic
        \/ hvm.PreparedJSONLD
              = JSONText(MarshalJSON(LastArg(hvOpts, "WithJSONLD", "jsonLD", ZeroJSONLDNode)))

NewViewModelReturned == hvPhase = "applied"

\* C18: option mutators are total: applying any sequence of head options to
\* a zero-valued HeadViewModel, as NewViewModel does, always completes, with
\* no panic for any option (WithCustomMetaTag included), and the instance
\* returned has every option applied.
C18_OptionsTotal ==
    NewViewModelReturned =>
        /\ hvPanic = NoPanic
        /\ \A i \in OptionsOf(hvOpts, "WithCustomMetaTag") :
              /\ hvOpts[i].key \in DOMAIN hvm.CustomMetaTags.kv
              /\ ~hvm.CustomMetaTags.isNil

\* The options of kind op in opts, in call order.
CallsOf(opts, op) == SelectSeq(opts, LAMBDA o : o.op = op)

\* C19: sequence fields after any option sequence: Fonts, Stylesheets and
\* HeaderScripts hold the values passed to WithFont, WithStylesheet and
\* WithHeaderScript, one element per call, in call order; Keywords is the
\* argument of the last WithKeywords call, not merged with earlier ones.
C19_SequenceFields ==
    (HeadBuilt \/ (NewViewModelReturned /\ hvPanic = NoPanic)) =>
        /\ hvm.Fonts =
              [i \in DOMAIN CallsOf(hvOpts, "WithFont") |->
                  [Href |-> CallsOf(hvOpts, "WithFont")[i].href,
                   CrossOrigin |-> CallsOf(hvOpts, "WithFont")[i].crossOrigin]]
        /\ hvm.Stylesheets =
              [i \in DOMAIN CallsOf(hvOpts, "WithStylesheet") |->
                  [Href |-> CallsOf(hvOpts, "WithStylesheet")[i].href,
                   Media |-> CallsOf(hvOpts, "WithStylesheet")[i].media,
                   Integrity |-> CallsOf(hvOpts, "WithStylesheet")[i].integrity,
                   CrossOrigin |-> CallsOf(hvOpts, "WithStylesheet")[i].crossOrigin]]
        /\ hvm.HeaderScripts =
              [i \in DOMAIN CallsOf(hvOpts, "WithHeaderScript") |->
                  [Src |-> CallsOf(hvOpts, "WithHeaderScript")[i].src,
                   IsAsync |-> CallsOf(hvOpts, "WithHeaderScript")[i].isAsync,
                   IsDefer |-> CallsOf(hvOpts, "WithHeaderScript")[i].isDefer,
                   Type |-> CallsOf(hvOpts, "WithHeaderScript")[i].scriptType,
                   Integrity |-> CallsOf(hvOpts, "WithHeaderScript")[i].integrity,
                   CrossOrigin |-> CallsOf(hvOpts, "WithHeaderScript")[i].crossOrigin]]
        /\ hvm.Metadata.Keywords = LastArg(hvOpts, "WithKeywords", "keywords", <<>>)

\* Two WithKeywords calls with a WithFont call in between.
C19_Witness ==
    /\ HeadBuilt
    /\ hvOpts = <<OptKeywords(<<"a", "b">>), OptFont("/f.woff2", TRUE), OptKeywords(<<"c">>)>>
    /\ hvm.Metadata.Keywords = <<"c">>
    /\ Len(hvm.Fonts) = 1

\* Two WithFont calls around a WithHeaderScript call, and the same fonts the
\* other way round.
C19_WitnessOrder ==
    /\ HeadBuilt
    /\ hvm.Fonts = <<[Href |-> "/g.woff2", CrossOrigin |-> FALSE],
                     [Href |-> "/f.woff2", CrossOrigin |-> TRUE]>>
    /\ Len(hvm.HeaderScripts) = 1

----------------------------------------------------------------------------
(* JSON-LD: properties *)

ReservedKeys == {"@context", "@id", "@type", "@graph"}

NodeEncoded == jlPhase = "encoded"

\* j is a JSON object whose reserved members come from the explicit fields of
\* n and whose other members are the non-reserved properties of n, and the
\* same holds of every node of n's graph and the element of @graph at its
\* position.
RECURSIVE ReservedFromFieldsOnly(_, _)
ReservedFromFieldsOnly(n, j) ==
    /\ j.kind = "object"
    /\ DOMAIN j.v \ ReservedKeys = DOMAIN n.Properties \ ReservedKeys
    /\ \A k \in DOMAIN n.Properties \ ReservedKeys : j.v[k] = Marshal(n.Properties[k])
    /\ "@id" \in DOMAIN j.v <=> n.ID # ""
    /\ "@id" \in DOMAIN j.v => j.v["@id"] = JSONString(n.ID)
    /\ "@context" \in DOMAIN j.v =>
          /\ n.Context # AnyNil
          /\ j.v["@context"] = Marshal(n.Context)
    /\ "@type" \in DOMAIN j.v =>
          /\ n.Type # AnyNil
          /\ j.v["@type"] = Marshal(n.Type)
    /\ "@graph" \in DOMAIN j.v <=> Len(n.Graph) > 0
    /\ "@graph" \in DOMAIN j.v =>
          /\ j.v["@graph"].kind = "array"
          /\ Len(j.v["@graph"].v) = Len(n.Graph)
          /\ \A i \in DOMAIN n.Graph :
                ReservedFromFieldsOnly(n.Graph[i], j.v["@graph"].v[i])

\* C20: JSONLDNode encoding: the reserved keys @context, @id, @type and
\* @graph of the output come only from the explicit fields, never from the
\* Properties map: a reserved key present in Properties is dropped whether or
\* not the explicit field is set, at every nesting level of @graph, while
\* every non-reserved property is copied unchanged.
C20_ReservedKeysFromFields ==
    NodeEncoded => ReservedFromFieldsOnly(jlNode, jlOut)

\* Properties = {"@id": "should-be-ignored", "name": "A"} with ID "real-id"
\* has been encoded to {"@id":"real-id","name":"A"}.
C20_Witness ==
    /\ NodeEncoded
    /\ jlNode = JSONLDNode(AnyNil, "real-id", AnyNil, <<>>,
                           ("@id" :> AnyString("should-be-ignored"))
                               @@ ("name" :> AnyString("A")))
    /\ jlOut = JSONObject(("@id" :> JSONString("real-id")) @@ ("name" :> JSONString("A")))
    /\ JSONText(jlOut) = "{\"@id\":\"real-id\",\"name\":\"A\"}"

\* The same Properties with an empty ID have been encoded to {"name":"A"}.
C20_WitnessNoID ==
    /\ NodeEncoded
    /\ jlNode.ID = ""
    /\ "@id" \in DOMAIN jlNode.Properties
    /\ JSONText(jlOut) = "{\"name\":\"A\"}"

\* A node two levels down in the graph carries reserved keys in Properties
\* and none of them is in its encoding.
C20_WitnessNested ==
    /\ NodeEncoded
    /\ Len(jlNode.Graph) = 2
    /\ Len(jlNode.Graph[2].Graph) = 1
    /\ "@type" \in DOMAIN jlNode.Graph[2].Graph[1].Properties
    /\ jlOut.v["@graph"].v[2].v["@graph"].v[1] = JSONObject(("@context" :> JSONString("http://schema.org/")))

\* C21: JSONLDNode encoding: @type is omitted exactly when Type is nil, an
\* empty string, or an empty sequence (of strings or of generic values); in
\* every other case the output contains @type equal to the Type field.
C21_TypeOmission ==
    NodeEncoded =>
        LET omitted ==
                \/ jlNode.Type.kind = "nil"
                \/ jlNode.Type.kind = "string" /\ jlNode.Type.v = ""
                \/ jlNode.Type.kind \in {"[]string", "[]any"} /\ Len(jlNode.Type.v) = 0
        IN  /\ omitted <=> "@type" \notin DOMAIN jlOut.v
            /\ ~omitted => jlOut.v["@type"] = Marshal(jlNode.Type)

\* Type = []string{} next to a @type in Properties: no @type in the output.
C21_Witness ==
    /\ NodeEncoded
    /\ jlNode.Type = AnyStrings(<<>>)
    /\ "@type" \in DOMAIN jlNode.Properties
    /\ "@type" \notin DOMAIN jlOut.v

\* Type = "Product" gives "@type":"Product".
C21_WitnessProduct ==
    /\ NodeEncoded
    /\ jlNode.Type = AnyString("Product")
    /\ jlNode.Context = AnyNil /\ jlNode.ID = "" /\ jlNode.Properties = <<>>
    /\ JSONText(jlOut) = "{\"@type\":\"Product\"}"

\* C22: JSONLDNode encoding: @context is omitted exactly when Context is nil
\* or a string equal to empty; a non-string context (mapping or sequence) is
\* always included, also when it is an empty mapping or an empty sequence.
C22_ContextOmission ==
    NodeEncoded =>
        LET omitted ==
                \/ jlNode.Context.kind = "nil"
                \/ jlNode.Context.kind = "string" /\ jlNode.Context.v = ""
        IN  /\ omitted <=> "@context" \notin DOMAIN jlOut.v
            /\ ~omitted => jlOut.v["@context"] = Marshal(jlNode.Context)

\* Context = map[string]any{} gives "@context":{}.
C22_Witness ==
    /\ NodeEncoded
    /\ jlNode.Context = AnyMap(<<>>)
    /\ jlNode.ID = "" /\ jlNode.Type = AnyNil /\ jlNode.Properties = <<>>
    /\ JSONText(jlOut) = "{\"@context\":{}}"

\* Context = []any{} gives "@context":[].
C22_WitnessEmptySequence ==
    /\ NodeEncoded
    /\ jlNode.Context = AnyAnys(<<>>)
    /\ jlOut.v["@context"] = JSONArray(<<>>)

\* The child n of a graph is encoded to j as a top-level node is: by
\* MarshalJSON, with the reserved-key filtering and the omission rules of
\* @type and @context applied to the child itself.
ChildEncodedByRules(n, j) ==
    /\ j = MarshalJSON(n)
    /\ ReservedFromFieldsOnly(n, j)
    /\ "@type" \notin DOMAIN j.v <=>
          \/ n.Type.kind = "nil"
          \/ n.Type.kind = "string" /\ n.Type.v = ""
          \/ n.Type.kind \in {"[]string", "[]any"} /\ Len(n.Type.v) = 0
    /\ "@context" \notin DOMAIN j.v <=>
          \/ n.Context.kind = "nil"
          \/ n.Context.kind = "string" /\ n.Context.v = ""

\* C23: JSONLDNode encoding: @graph is present exactly when the child-node
\* sequence is non-empty; it then holds one object per child in the same
\* order, each child encoded by the same rules as a top-level node.
C23_GraphEncoding ==
    NodeEncoded =>
        /\ "@graph" \in DOMAIN jlOut.v <=> Len(jlNode.Graph) > 0
        /\ Len(jlNode.Graph) > 0 =>
              /\ jlOut.v["@graph"].kind = "array"
              /\ Len(jlOut.v["@graph"].v) = Len(jlNode.Graph)
              /\ \A i \in DOMAIN jlNode.Graph :
                    ChildEncodedByRules(jlNode.Graph[i], jlOut.v["@graph"].v[i])

\* Two different children, the second with reserved keys in Properties and an
\* empty Type, under a parent whose Properties names @graph as well.
C23_Witness ==
    /\ NodeEncoded
    /\ Len(jlNode.Graph) = 2
    /\ jlNode.Graph[1] # jlNode.Graph[2]
    /\ "@graph" \in DOMAIN jlNode.Properties
    /\ JSONText(jlOut) =
          "{\"@context\":\"http://schema.org/\",\"@graph\":["
              \o "{\"@id\":\"real-id\",\"@type\":\"Product\",\"name\":\"A\"},"
              \o "{\"@context\":\"http://schema.org/\"}]}"

\* No children: a @graph named by Properties alone is not written.
C23_WitnessEmpty ==
    /\ NodeEncoded
    /\ jlNode.Graph = <<>>
    /\ "@graph" \in DOMAIN jlNode.Properties
    /\ "@graph" \notin DOMAIN jlOut.v

\* The encoded node has graph children at least two levels deep.
TwoLevelsDeep(n) == \E i \in DOMAIN n.Graph : Len(n.Graph[i].Graph) > 0

RoundTripDone == jlPhase = "reencoded"

\* C24: JSON-LD round trip: encoding a JSONLDNode with graph children at
\* least two levels deep, decoding the result back into a JSONLDNode and
\* encoding again yields output equal to the first encoding.
C24_RoundTrip ==
    (RoundTripDone /\ TwoLevelsDeep(jlNode)) => jlAgain = jlOut

\* C29: SessionCheck calls the store's ExchangeSessionIDForUser at most once
\* per request, with the value of the session cookie, before any callback,
\* and only on a request whose session cookie was found and is valid; never
\* when the cookie is missing or invalid, whatever the required flag.
C29_ExchangeOnlyForValidCookie ==
    ServedBySessionCheck =>
        /\ Len(fx.exchange) <= 1
        /\ fx.exchange # <<>> =>
              /\ HasSessionCookie(req)
              /\ SessionCookieValidErr(req) = NoErr
              /\ fx.exchange = <<SessionCookieValue(req)>>
              /\ Head(fx.trace) = "ExchangeSessionIDForUser"
              /\ Len(fx.trace) = 2

\* Two session cookies of different values: the first one's value is what the
\* store is asked about.
C29_Witness ==
    /\ ServedBySessionCheck
    /\ Len(req.cookies) = 2
    /\ req.cookies[1].Name = SESSION_COOKIE_NAME
    /\ req.cookies[2].Name = SESSION_COOKIE_NAME
    /\ req.cookies[1].Value # req.cookies[2].Value
    /\ req.cookies[2].validErr # NoErr
    /\ fx.exchange = <<req.cookies[1].Value>>

\* The store is not asked about an invalid cookie, required or not.
C29_WitnessInvalid ==
    /\ ServedBySessionCheck
    /\ ~isSessionIDRequired
    /\ HasSessionCookie(req)
    /\ SessionCookieValidErr(req) # NoErr
    /\ fx.exchange = <<>>
    /\ fx.trace = <<"next">>

----------------------------------------------------------------------------
(* Web server: properties *)

RequestServed == served.path # ""

\* Entry m1..mn, the route handler, exit mn..m1.
OutermostFirst(mws) ==
    [i \in 1..Len(mws) |-> [ev |-> "enter", mw |-> mws[i]]]
        \o <<[ev |-> "route", mw |-> "mux"]>>
        \o [i \in 1..Len(mws) |-> [ev |-> "exit", mw |-> mws[Len(mws) + 1 - i]]]

\* C25: after Start, a request handled by the server passes through all the
\* configured global middlewares, the first-registered one outermost: entry
\* m1..mn, then the route handler, then exit mn..m1.
C25_MiddlewareOrder ==
    RequestServed => served.trace = OutermostFirst(ws.GlobalMiddlewares)

StartRunning == startPc \in {"spawned", "blocked", "inShutdown"}
StartReturned == startPc = "returned"

\* The context passed to Start was cancelled, or SIGINT/SIGTERM was delivered.
ShutdownSignalled == ctxDone \/ cancelCalled \/ sigChan # <<>>

\* Start took the shutdown branch: one Shutdown call, with the 15-second
\* timeout, and Start's result is nil when it returned nil, its error wrapped
\* as "server shutdown failed" otherwise.
ReturnedFromShutdown ==
    /\ Len(shutdownCalls) = 1
    /\ shutdownCalls[1].timeout = 15
    /\ shutdownCalls[1].returned
    /\ startRet = IF shutdownCalls[1].err = NoErr
                  THEN NoErr
                  ELSE Errorf("server shutdown failed", shutdownCalls[1].err)

\* Start took the listener branch: no Shutdown call, and Start's result is the
\* listener's failure wrapped as "ListenAndServe failed".
ReturnedListenerFailure ==
    /\ shutdownCalls = <<>>
    /\ listenErr \notin {NoErr, ErrServerClosed}
    /\ startRet = Errorf("ListenAndServe failed", listenErr)

\* C26 as stated: once the context was cancelled or a signal arrived while
\* the server was listening, Start returns through Shutdown, called with the
\* 15-second timeout: nil when Shutdown succeeded, the wrapped failure
\* otherwise.
C26_SignalMeansShutdown ==
    (hist.signalWhileListening /\ StartReturned) => ReturnedFromShutdown

\* C26, amended: once the context was cancelled or a signal arrived while the
\* server was listening, Start returns through Shutdown as stated, unless a
\* listener failure reached its select first, which it then returns without
\* calling Shutdown; and a running Start whose shutdown signal has occurred
\* eventually returns.
C26_ShutdownPath ==
    /\ []((hist.signalWhileListening /\ StartReturned)
             => (ReturnedFromShutdown \/ ReturnedListenerFailure))
    /\ ((StartRunning /\ ShutdownSignalled) ~> StartReturned)

C26_Witness ==
    /\ hist.signalWhileListening
    /\ StartReturned
    /\ ReturnedFromShutdown
    /\ startRet # NoErr

C26_WitnessSignal ==
    /\ hist.signalWhileListening
    /\ cancelCalled
    /\ ~ctxDone
    /\ StartReturned
    /\ ReturnedFromShutdown
    /\ startRet = NoErr

\* C27: when ListenAndServe failed with an error other than ErrServerClosed
\* before any shutdown signal, Start returns that failure wrapped as
\* "ListenAndServe failed", without calling Shutdown, and never returns nil.
C27_ListenerErrorPath ==
    (hist.failBeforeSignal /\ StartReturned) => ReturnedListenerFailure

PageRequestServed(pkg) == RequestServed /\ ws.pkg = pkg /\ Matches(ws.mux, served.path)

\* C28: the page handler ServeContent registers writes nothing to the
\* response when the content provider fails (no body, no Content-Type, no
\* status) and does not render the layout; when the provider succeeds it sets
\* Content-Type to "text/html; charset=utf-8" and renders the layout-wrapped
\* document, and a render error then leads to an attempt at a 500.
C28_PageHandler ==
    PageRequestServed("gotth") =>
        IF served.providerErr # NoErr
        THEN /\ served.resp.body = <<>>
             /\ served.resp.header = <<>>
             /\ served.resp.status = 0
             /\ served.resp.rendered = <<>>
             /\ served.resp.httpError = <<>>
        ELSE /\ served.resp.rendered = <<"BasicLayout">>
             /\ IF served.render = "ok"
                THEN /\ served.resp.header = ("Content-Type" :> "text/html; charset=utf-8")
                     /\ served.resp.status = 200
                     /\ served.resp.body = <<"page">>
                     /\ served.resp.httpError = <<>>
                ELSE served.resp.httpError = <<500>>

C28_Witness ==
    /\ PageRequestServed("gotth")
    /\ served.providerErr # NoErr
    /\ served.resp.stderr # <<>>

C28_WitnessRenderError ==
    /\ PageRequestServed("gotth")
    /\ served.providerErr = NoErr
    /\ served.render = "failsAfterWrite"
    /\ served.resp.status = 200
    /\ served.resp.httpError = <<500>>

\* The listener goroutine is at its send and errChan's buffer is full.
ListenerBlockedOnSend ==
    /\ listenPc = "returned"
    /\ listenErr \notin {NoErr, ErrServerClosed}
    /\ Len(errChan.buf) >= 1

\* The signal goroutine is at <-sigChan and nothing is there to receive.
SignalGoroutineBlocked == sigPc = "waiting" /\ sigChan = <<>>

\* C30: on every path by which Start returns, the listener goroutine never
\* blocks on its send to errChan, and once Start has returned no goroutine it
\* started remains blocked: not the listener goroutine, not the signal
\* goroutine of gracefulShutdownContext.
C30_NoGoroutineLeftBlocked ==
    /\ ~ListenerBlockedOnSend
    /\ StartReturned => ~SignalGoroutineBlocked

====
